---- MODULE Spec2Model ----
(***************************************************************************)
(* A model of the lightweight blockchain: Block and Transaction            *)
(* (src/block.py, src/transaction.py), the Blockchain and its handlers     *)
(* (src/blockchain.py), the threads that call it (src/pow_miner.py,        *)
(* src/mining_node.py), the files of BlockchainState                       *)
(* (src/blockchain_state.py), and the ProofOfWork engine with the power    *)
(* modes of IoTOptimizedMiner (src/pow_miner.py).                          *)
(*                                                                         *)
(* Python strings that are SHA-256 hex digests are modelled as records     *)
(* [lead, body]: lead is the sequence of the digest's leading DigestLen    *)
(* digits (a deterministic mix of the hashed fields, base Radix), body is  *)
(* the tuple of the hashed fields and stands for the rest of the digest,   *)
(* so that two digests are equal exactly when the hashed fields are equal  *)
(* (SHA-256 taken as collision free). The string "0" is [lead |-> <<0>>,   *)
(* body |-> <<>>].                                                          *)
(***************************************************************************)
EXTENDS Integers, Sequences, FiniteSets, TLC

VARIABLES
    chain,                  \* Blockchain.chain: sequence of Block
    pending_transactions,   \* Blockchain.pending_transactions
    difficulty,             \* Blockchain.difficulty
    nodes,                  \* Blockchain.nodes
    now,                    \* time.time()
    last,                   \* the last completed call: op, arg, ret, exc, pre
    tampered,               \* whether a stored block was changed in place
    pc,                     \* per thread: position in its code
    loc,                    \* per thread: local variables of its call
    midmine,                \* transactions accepted while another thread mines
    peer_chains,            \* per peer node: the chain its /chain endpoint returns
    files,                  \* BlockchainState.data_dir: file name -> content
    saved,                  \* per file: the Blockchain a completed save wrote
    pow,                    \* the ProofOfWork engine's fields
    power_mode,             \* IoTOptimizedMiner.power_mode
    stop_mining,            \* ProofOfWork.stop_mining: whether the Event is set
    mining_thread,          \* ProofOfWork.mining_thread
    configured_target_time, \* the target_time ProofOfWork was constructed with
    running,                \* BlockchainState.running
    save_thread             \* BlockchainState.save_thread

bcVars == <<chain, pending_transactions, difficulty, nodes>>
thVars == <<pc, loc, midmine>>
ctlVars == <<stop_mining, mining_thread>>
autoVars == <<running, save_thread>>
extVars == <<peer_chains, files, saved, pow, power_mode, ctlVars, configured_target_time,
             autoVars>>
vars == <<chain, pending_transactions, difficulty, nodes, now, last, tampered,
          pc, loc, midmine, peer_chains, files, saved, pow,
          power_mode, stop_mining, mining_thread, configured_target_time,
          running, save_thread>>

----------------------------------------------------------------------------
(* Bounds of the model *)

MaxChain == 3          \* longest chain built under Spec
MaxTx == 2             \* transactions submitted under Spec
MaxTime == 2           \* last clock value under SpecDeep
MaxDifficulty == 2     \* largest difficulty a Blockchain is constructed with
Radix == 2             \* digits of a digest's lead are in 0..Radix-1

\* a digest's lead is long enough for every difficulty a chain is checked at:
\* those a Blockchain is constructed with and the default 3 of Blockchain()
DigestLen == IF MaxDifficulty > 3 THEN MaxDifficulty ELSE 3
Modulus == Radix ^ DigestLen

Contents == {"A", "B"}
Peers == {"peer1"}
AllPeers == {"peer1", "peer2"}
MinerAddress == "node_1"
PeerDevice == "peer_dev"
GenesisDevice == "genesis_node"

----------------------------------------------------------------------------
(* Strings and digests *)

Str0 == [lead |-> <<0>>, body |-> <<>>]

\* None of Python
None == [none |-> TRUE]

\* hash.startswith("0" * d), hash[:d] == "0" * d
StartsWithZeros(h, d) ==
    /\ Len(h.lead) >= d
    /\ \A i \in 1..d : h.lead[i] = 0

RECURSIVE DigitsOf(_, _)
DigitsOf(n, len) ==
    IF len = 0 THEN <<>>
    ELSE Append(DigitsOf(n \div Radix, len - 1), n % Radix)

RECURSIVE LeadValue(_)
LeadValue(s) ==
    IF s = <<>> THEN 0
    ELSE LeadValue(SubSeq(s, 1, Len(s) - 1)) * Radix + s[Len(s)]

ContentCode(c) == IF c = "A" THEN 1 ELSE IF c = "B" THEN 2 ELSE 3

DeviceCode(d) ==
    IF d = GenesisDevice THEN 1
    ELSE IF d = MinerAddress THEN 2
    ELSE IF d = PeerDevice THEN 3 ELSE 4

RECURSIVE TxListCode(_)
TxListCode(txs) ==
    IF txs = <<>> THEN 0
    ELSE ContentCode(txs[1].content) + txs[1].timestamp + 2 * TxListCode(Tail(txs))

DataCode(data) ==
    IF "transactions" \in DOMAIN data
    THEN TxListCode(data.transactions) + data.count
    ELSE 5

----------------------------------------------------------------------------
(* Transaction *)

calculate_transaction_id(content, timestamp, device_id) ==
    <<content, timestamp, device_id>>

\* timestamp=None
NoTimestamp == -1

\* Transaction.__init__: a timestamp of None is replaced by time.time()
Transaction(content, timestamp, device_id) ==
    LET stamped == IF timestamp = NoTimestamp THEN now ELSE timestamp
    IN  [ transaction_id |-> calculate_transaction_id(content, stamped, device_id),
          content |-> content,
          timestamp |-> stamped,
          device_id |-> device_id ]

Transaction_to_dict(tx) ==
    [ transaction_id |-> tx.transaction_id,
      content |-> tx.content,
      timestamp |-> tx.timestamp,
      device_id |-> tx.device_id ]

Transaction_from_dict(d) ==
    [ Transaction(d.content, d.timestamp, d.device_id)
        EXCEPT !.transaction_id = d.transaction_id ]

----------------------------------------------------------------------------
(* Block *)

\* successive nonces move the lead by a stride that has no factor in common with
\* Radix, so the leads of Modulus successive nonces are all different
calculate_hash(b) ==
    [ lead |-> DigitsOf(( 3 * b.index + 5 * b.timestamp + 7 * DataCode(b.data)
                          + 11 * LeadValue(b.previous_hash.lead)
                          + 13 * DeviceCode(b.device_id)
                          + (Radix + 1) * b.nonce + 1 ) % Modulus,
                        DigestLen),
      body |-> <<b.index, b.timestamp, b.data, b.previous_hash, b.device_id, b.nonce>> ]

Block(index, timestamp, data, previous_hash, device_id) ==
    LET b == [ index |-> index, timestamp |-> timestamp, data |-> data,
               previous_hash |-> previous_hash, device_id |-> device_id,
               nonce |-> 0, hash |-> Str0 ]
    IN  [b EXCEPT !.hash = calculate_hash(b)]

RECURSIVE mine_block(_, _)
mine_block(b, d) ==
    IF StartsWithZeros(b.hash, d) THEN b
    ELSE LET b1 == [b EXCEPT !.nonce = @ + 1]
         IN  mine_block([b1 EXCEPT !.hash = calculate_hash(b1)], d)

Block_to_dict(b) ==
    [ index |-> b.index, timestamp |-> b.timestamp, data |-> b.data,
      previous_hash |-> b.previous_hash, device_id |-> b.device_id,
      nonce |-> b.nonce, hash |-> b.hash ]

Block_from_dict(d) ==
    [ Block(d.index, d.timestamp, d.data, d.previous_hash, d.device_id)
        EXCEPT !.nonce = d.nonce, !.hash = d.hash ]

is_valid(b) == b.hash = calculate_hash(b)

----------------------------------------------------------------------------
(* Blockchain: the object is the record Self of its four fields; a handler *)
(* is an operator from the object and its arguments to the object after   *)
(* the call, the value returned and the exception raised ("none" if none). *)

Self ==
    [ chain |-> chain, pending_transactions |-> pending_transactions,
      difficulty |-> difficulty, nodes |-> nodes ]

Blockchain(d) ==
    [ chain |-> <<>>, pending_transactions |-> <<>>, difficulty |-> d, nodes |-> {} ]

Result(self, ret, exc) == [self |-> self, ret |-> ret, exc |-> exc]

create_genesis_block(time) ==
    Block(0, time, [message |-> "Genesis Block for Pharmaceutical Supply Chain"],
          Str0, GenesisDevice)

get_latest_block(self) == self.chain[Len(self.chain)]

\* add_transaction that puts the transaction at the head of the pool
add_transaction_AtHead(self, transaction) ==
    IF transaction.type \notin {"Transaction", "dict"}
    THEN Result(self, 0, "TypeError")
    ELSE LET tx == IF transaction.type = "Transaction" THEN transaction.v
                   ELSE Transaction_from_dict(transaction.v)
         IN  Result([self EXCEPT !.pending_transactions = <<tx>> \o @],
                    IF self.chain # <<>> THEN get_latest_block(self).index + 1 ELSE 1,
                    "none")

add_transaction(self, transaction) ==
    IF transaction.type \notin {"Transaction", "dict"}
    THEN Result(self, 0, "TypeError")
    ELSE LET tx == IF transaction.type = "Transaction" THEN transaction.v
                   ELSE Transaction_from_dict(transaction.v)
         IN  Result([self EXCEPT !.pending_transactions = Append(@, tx)],
                    IF self.chain # <<>> THEN get_latest_block(self).index + 1 ELSE 1,
                    "none")

\* line 56: the hash the new block is linked to
TipHash(self) == IF self.chain # <<>> THEN get_latest_block(self).hash ELSE Str0

\* lines 59-68: the block built over the pending pool
BuildBlock(index, previous_hash, pending, mining_reward_address, time) ==
    Block(index, time,
          [ transactions |-> [i \in 1..Len(pending) |-> Transaction_to_dict(pending[i])],
            count |-> Len(pending) ],
          previous_hash, mining_reward_address)

\* the new block linked to "0" whatever the tip is
NewBlock_Unlinked(self, mining_reward_address, time) ==
    BuildBlock(Len(self.chain), Str0, self.pending_transactions,
               mining_reward_address, time)

\* lines 56-68: the block built from the tip, the length and the pending pool
NewBlock(self, mining_reward_address, time) ==
    BuildBlock(Len(self.chain), TipHash(self), self.pending_transactions,
               mining_reward_address, time)

\* mine_pending_transactions leaving the pending pool as it was
mine_pending_transactions_KeepsPool(self, mining_reward_address, time) ==
    LET block == mine_block(NewBlock(self, mining_reward_address, time), self.difficulty)
    IN  Result([self EXCEPT !.chain = Append(@, block)], block, "none")

\* mine_pending_transactions assigning the chain instead of appending to it
mine_pending_transactions_Assigns(self, mining_reward_address, time) ==
    LET block == mine_block(NewBlock(self, mining_reward_address, time), self.difficulty)
    IN  Result([self EXCEPT !.chain = <<block>>, !.pending_transactions = <<>>],
               block, "none")

mine_pending_transactions(self, mining_reward_address, time) ==
    LET block == mine_block(NewBlock(self, mining_reward_address, time), self.difficulty)
    IN  Result([self EXCEPT !.chain = Append(@, block), !.pending_transactions = <<>>],
               block, "none")

\* add_block without its difficulty check
AddBlockAccepts_NoDifficulty(self, block) ==
    /\ ~ (self.chain # <<>> /\ block.previous_hash # self.chain[Len(self.chain)].hash)
    /\ ~ (block.hash # calculate_hash(block))

\* the three checks of add_block, in the order of the code
AddBlockAccepts(self, block) ==
    /\ ~ (self.chain # <<>> /\ block.previous_hash # get_latest_block(self).hash)
    /\ ~ (block.hash # calculate_hash(block))
    /\ StartsWithZeros(block.hash, self.difficulty)

\* add_block appending the block before it checks it
add_block_AppendsFirst(self, arg) ==
    IF arg.type \notin {"Block", "dict"}
    THEN Result(self, FALSE, "TypeError")
    ELSE LET block == IF arg.type = "Block" THEN arg.v ELSE Block_from_dict(arg.v)
         IN  Result([self EXCEPT !.chain = Append(@, block)],
                    AddBlockAccepts(self, block), "none")

add_block(self, arg) ==
    IF arg.type \notin {"Block", "dict"}
    THEN Result(self, FALSE, "TypeError")
    ELSE LET block == IF arg.type = "Block" THEN arg.v ELSE Block_from_dict(arg.v)
         IN  IF AddBlockAccepts(self, block)
             THEN Result([self EXCEPT !.chain = Append(@, block)], TRUE, "none")
             ELSE Result(self, FALSE, "none")

RECURSIVE BlockValidFrom(_, _)
\* the loop of is_chain_valid from position i (1-based: i is the code's i+1)
BlockValidFrom(self, i) ==
    IF i > Len(self.chain) THEN TRUE
    ELSE LET current_block == self.chain[i]
             previous_block == self.chain[i - 1]
         IN  IF current_block.hash # calculate_hash(current_block) THEN FALSE
             ELSE IF current_block.previous_hash # previous_block.hash THEN FALSE
             ELSE IF ~ StartsWithZeros(current_block.hash, self.difficulty) THEN FALSE
             ELSE BlockValidFrom(self, i + 1)

is_chain_valid(self) == BlockValidFrom(self, 2)

register_node(self, node_address) ==
    Result([self EXCEPT !.nodes = @ \cup {node_address}], 0, "none")

AdjustWindow == 10

RECURSIVE SumSeq(_)
SumSeq(s) == IF s = <<>> THEN 0 ELSE s[1] + SumSeq(Tail(s))

\* adjust_difficulty whose decrease has no floor
adjust_difficulty_NoFloor(self, target_time) ==
    IF Len(self.chain) < AdjustWindow THEN Result(self, self.difficulty, "none")
    ELSE LET recent_blocks == SubSeq(self.chain, Len(self.chain) - AdjustWindow + 1,
                                     Len(self.chain))
             times == [i \in 1..(Len(recent_blocks) - 1) |->
                          recent_blocks[i + 1].timestamp - recent_blocks[i].timestamp]
             sum == SumSeq(times)
             d == IF 10 * sum * target_time[2] < 8 * Len(times) * target_time[1]
                  THEN self.difficulty + 1
                  ELSE IF 10 * sum * target_time[2] > 12 * Len(times) * target_time[1]
                  THEN self.difficulty - 1
                  ELSE self.difficulty
         IN  Result([self EXCEPT !.difficulty = d], d, "none")

\* target_time is the fraction target_time[1] / target_time[2]; the comparisons
\* avg_time < target_time * 0.8 and avg_time > target_time * 1.2, with
\* avg_time = sum(times) / len(times), are cross-multiplied
adjust_difficulty(self, target_time) ==
    IF Len(self.chain) < AdjustWindow THEN Result(self, self.difficulty, "none")
    ELSE LET recent_blocks == SubSeq(self.chain, Len(self.chain) - AdjustWindow + 1,
                                     Len(self.chain))
             times == [i \in 1..(Len(recent_blocks) - 1) |->
                          recent_blocks[i + 1].timestamp - recent_blocks[i].timestamp]
             sum == SumSeq(times)
             d == IF 10 * sum * target_time[2] < 8 * Len(times) * target_time[1]
                  THEN self.difficulty + 1
                  ELSE IF 10 * sum * target_time[2] > 12 * Len(times) * target_time[1]
                  THEN (IF self.difficulty - 1 > 1 THEN self.difficulty - 1 ELSE 1)
                  ELSE self.difficulty
         IN  Result([self EXCEPT !.difficulty = d], d, "none")

----------------------------------------------------------------------------
(* Blockchain.resolve_conflicts *)

\* Blockchain.__init__(self, difficulty=3, ...): the difficulty of Blockchain()
DefaultDifficulty == 3

\* [Block.from_dict(block) for block in chain]
BlocksFromDicts(dicts) == [k \in 1..Len(dicts) |-> Block_from_dict(dicts[k])]

\* temp_blockchain = Blockchain(); temp_blockchain.chain = [Block.from_dict ...]
TempBlockchain(dicts) ==
    [Blockchain(DefaultDifficulty) EXCEPT !.chain = BlocksFromDicts(dicts)]

\* the loop over self.nodes from its i-th node on: the pair (max_length, new_chain);
\* a chain that is None or empty is <<>>
\* the loop that takes a peer chain as long as the best length known
RECURSIVE ResolveLoop_TakesEqual(_, _, _, _, _, _)
ResolveLoop_TakesEqual(order, get_chain_function, i, max_length, new_chain, fetched) ==
    IF i > Len(order) THEN <<max_length, new_chain, fetched>>
    ELSE LET c == get_chain_function[order[i]]
             asked == Append(fetched, order[i])
         IN  IF c # <<>> /\ Len(c) >= max_length /\ is_chain_valid(TempBlockchain(c))
             THEN ResolveLoop_TakesEqual(order, get_chain_function, i + 1, Len(c), c, asked)
             ELSE ResolveLoop_TakesEqual(order, get_chain_function, i + 1, max_length,
                                         new_chain, asked)

\* fetched is the sequence of the nodes that get_chain_function was called with
RECURSIVE ResolveLoop(_, _, _, _, _, _)
ResolveLoop(order, get_chain_function, i, max_length, new_chain, fetched) ==
    IF i > Len(order) THEN <<max_length, new_chain, fetched>>
    ELSE LET c == get_chain_function[order[i]]
             asked == Append(fetched, order[i])
         IN  IF c # <<>> /\ Len(c) > max_length /\ is_chain_valid(TempBlockchain(c))
             THEN ResolveLoop(order, get_chain_function, i + 1, Len(c), c, asked)
             ELSE ResolveLoop(order, get_chain_function, i + 1, max_length, new_chain, asked)

\* order is the order in which the for loop meets the elements of the set self.nodes
resolve_conflicts(self, order, get_chain_function) ==
    LET loop == ResolveLoop(order, get_chain_function, 1, Len(self.chain), <<>>, <<>>)
        new_chain == loop[2]
    IN  IF new_chain # <<>>
        THEN [ self |-> [self EXCEPT !.chain = BlocksFromDicts(new_chain)],
               ret |-> TRUE, exc |-> "none", fetched |-> loop[3] ]
        ELSE [self |-> self, ret |-> FALSE, exc |-> "none", fetched |-> loop[3]]

----------------------------------------------------------------------------
(* Blockchain.to_dict / from_dict *)

\* order is the order in which list(self.nodes) meets the elements of the set
to_dict(self, order) ==
    [ chain |-> [k \in 1..Len(self.chain) |-> Block_to_dict(self.chain[k])],
      pending_transactions |->
          [k \in 1..Len(self.pending_transactions) |->
              Transaction_to_dict(self.pending_transactions[k])],
      difficulty |-> self.difficulty,
      nodes |-> order ]

BlockKeys == {"index", "timestamp", "data", "previous_hash", "device_id", "nonce", "hash"}
TransactionKeys == {"transaction_id", "content", "timestamp", "device_id"}

\* blockchain_dict.get(key, default)
Get(d, key, default) == IF key \in DOMAIN d THEN d[key] ELSE default

\* from_dict raises KeyError: blockchain_dict["chain"], block_dict[...] or
\* transaction_dict[...] names a key that the dictionary does not have
FromDictRaises(d) ==
    \/ "chain" \notin DOMAIN d
    \/ \E k \in 1..Len(d.chain) : ~ (BlockKeys \subseteq DOMAIN d.chain[k])
    \/ \E k \in 1..Len(Get(d, "pending_transactions", <<>>)) :
          ~ (TransactionKeys \subseteq DOMAIN d.pending_transactions[k])

\* for node in blockchain_dict.get("nodes", []): blockchain.register_node(node)
RECURSIVE RegisterAll(_, _)
RegisterAll(blockchain, list) ==
    IF list = <<>> THEN blockchain
    ELSE RegisterAll(register_node(blockchain, Head(list)).self, Tail(list))

\* from_dict that builds each pending Transaction anew and keeps the id it computes
from_dict_NewIds(d) ==
    LET pending == Get(d, "pending_transactions", <<>>)
        blockchain ==
            [Blockchain(Get(d, "difficulty", DefaultDifficulty)) EXCEPT
                !.chain = BlocksFromDicts(d.chain),
                !.pending_transactions =
                    [k \in 1..Len(pending) |->
                        Transaction(pending[k].content, pending[k].timestamp,
                                    pending[k].device_id)]]
    IN  RegisterAll(blockchain, Get(d, "nodes", <<>>))

\* defined for the documents on which FromDictRaises is false
from_dict(d) ==
    LET pending == Get(d, "pending_transactions", <<>>)
        blockchain ==
            [Blockchain(Get(d, "difficulty", DefaultDifficulty)) EXCEPT
                !.chain = BlocksFromDicts(d.chain),
                !.pending_transactions =
                    [k \in 1..Len(pending) |-> Transaction_from_dict(pending[k])]]
    IN  RegisterAll(blockchain, Get(d, "nodes", <<>>))

----------------------------------------------------------------------------
(* Blockchain.get_transaction_history. A barcode is the record of its code, *)
(* or None; the mapping of a transaction has the four keys that             *)
(* Transaction.to_dict gives it.                                            *)

Barcode(code) == [code |-> code]

\* the entry appended for a transaction mapping that matched
HistoryEntry(block, tx_dict) ==
    [ transaction |-> Transaction_to_dict(Transaction_from_dict(tx_dict)),
      block_index |-> block.index,
      block_hash |-> block.hash,
      timestamp |-> block.timestamp ]

\* for tx_dict in block.data["transactions"]: if tx_dict.get("barcode") == barcode
RECURSIVE ScanTransactions(_, _, _)
ScanTransactions(block, tx_dicts, barcode) ==
    IF tx_dicts = <<>> THEN <<>>
    ELSE (IF Get(tx_dicts[1], "barcode", None) = barcode
          THEN <<HistoryEntry(block, tx_dicts[1])>> ELSE <<>>)
         \o ScanTransactions(block, Tail(tx_dicts), barcode)

\* for block in self.chain: if "transactions" in block.data
RECURSIVE ScanBlocks(_, _)
ScanBlocks(blocks, barcode) ==
    IF blocks = <<>> THEN <<>>
    ELSE (IF "transactions" \in DOMAIN blocks[1].data
          THEN ScanTransactions(blocks[1], blocks[1].data.transactions, barcode)
          ELSE <<>>)
         \o ScanBlocks(Tail(blocks), barcode)

get_transaction_history(self, barcode) ==
    Result(self, ScanBlocks(self.chain, barcode), "none")

----------------------------------------------------------------------------
(* BlockchainState: the files of data_dir. A file is absent, or holds the  *)
(* text of one JSON document (json.dump of dictionaries, lists, strings    *)
(* and numbers, which json.load gives back as they were), or holds text    *)
(* that json.load cannot parse: nothing yet, or the beginning of a         *)
(* document.                                                                *)

Target == "blockchain.json"
TempNames == {"tmp1", "tmp2", "tmp3"}

\* f"checkpoint_{int(time.time())}.json"
CheckpointName(time) ==
    CASE time = 0 -> "checkpoint_0.json"
      [] time = 1 -> "checkpoint_1.json"
      [] time = 2 -> "checkpoint_2.json"
      [] time = 3 -> "checkpoint_3.json"

\* a name that a caller of create_checkpoint gives
NamedCheckpoint == "checkpoint_backup.json"

\* the names f with f.startswith("checkpoint_") and f.endswith(".json")
CheckpointNames == {CheckpointName(time) : time \in 0..3} \cup {NamedCheckpoint}

FileNames == {Target} \cup TempNames \cup CheckpointNames

Absent == [kind |-> "absent"]
Unparsable == [kind |-> "partial"]
Document(doc) == [kind |-> "json", doc |-> doc]

\* open(filepath, "w") in the place of the temporary file: the destination is
\* emptied and written directly
CreateTemp_Target(fs, tmp) == [fs EXCEPT ![Target] = Unparsable, ![tmp] = Unparsable]

\* tempfile.NamedTemporaryFile("w", delete=False, dir=data_dir): a new, empty file
\* under a name that no file of the directory has
CreateTemp(fs, tmp) == [fs EXCEPT ![tmp] = Unparsable]

\* json.dump(blockchain_dict, tmp_file, indent=2) and the close of the file
Dump(fs, tmp, doc) == [fs EXCEPT ![tmp] = Document(doc)]

\* os.replace(temp_name, filepath)
Replace(fs, tmp, filepath) == [fs EXCEPT ![filepath] = fs[tmp], ![tmp] = Absent]

\* the whole call: fail names the statement that raises, "none" if none does;
\* the exception is caught and the call returns False
save_blockchain(fs, self, filename, order, tmp, fail) ==
    IF fail = "open" THEN [files |-> fs, ret |-> FALSE]
    ELSE IF fail = "dump" THEN [files |-> CreateTemp(fs, tmp), ret |-> FALSE]
    ELSE LET written == Dump(CreateTemp(fs, tmp), tmp, to_dict(self, order))
         IN  IF fail = "replace" THEN [files |-> written, ret |-> FALSE]
             ELSE [files |-> Replace(written, tmp, filename), ret |-> TRUE]

\* load_blockchain whose assignments start before the document is complete
load_blockchain_Eager(fs, self, filename) ==
    IF fs[filename] = Absent THEN Result(self, FALSE, "none")
    ELSE IF fs[filename].kind # "json"
    THEN Result(Blockchain(DefaultDifficulty), FALSE, "none")
    ELSE IF FromDictRaises(fs[filename].doc)
    THEN Result([self EXCEPT !.chain = <<>>], FALSE, "none")
    ELSE LET loaded_blockchain == from_dict(fs[filename].doc)
         IN  Result([self EXCEPT !.chain = loaded_blockchain.chain,
                                 !.difficulty = loaded_blockchain.difficulty,
                                 !.pending_transactions =
                                     loaded_blockchain.pending_transactions,
                                 !.nodes = loaded_blockchain.nodes],
                    TRUE, "none")

load_blockchain(fs, self, filename) ==
    IF fs[filename] = Absent THEN Result(self, FALSE, "none")
    ELSE IF fs[filename].kind # "json" \/ FromDictRaises(fs[filename].doc)
    THEN Result(self, FALSE, "none")
    ELSE LET loaded_blockchain == from_dict(fs[filename].doc)
         IN  Result([self EXCEPT !.chain = loaded_blockchain.chain,
                                 !.difficulty = loaded_blockchain.difficulty,
                                 !.pending_transactions =
                                     loaded_blockchain.pending_transactions,
                                 !.nodes = loaded_blockchain.nodes],
                    TRUE, "none")

\* int(x.split('_')[1].split('.')[0]): the number between "checkpoint_" and
\* ".json", NotANumber where int raises ValueError
NotANumber == -1

EmbeddedTimestamp(x) ==
    IF \E time \in 0..3 : CheckpointName(time) = x
    THEN CHOOSE time \in 0..3 : CheckpointName(time) = x
    ELSE NotANumber

\* os.listdir(data_dir), filtered on the beginning and the end of the name
list_checkpoints(fs) == {f \in CheckpointNames : fs[f] # Absent}

\* checkpoints.sort(key=...): ascending in the embedded timestamp
RECURSIVE SortedCheckpoints(_)
SortedCheckpoints(checkpoints) ==
    IF checkpoints = {} THEN <<>>
    ELSE LET oldest == CHOOSE c \in checkpoints :
                           \A d \in checkpoints :
                               EmbeddedTimestamp(c) <= EmbeddedTimestamp(d)
         IN  <<oldest>> \o SortedCheckpoints(checkpoints \ {oldest})

\* list[:-n] for n >= 0: -0 is 0, and list[:0] is empty
SliceUntilMinus(list, n) ==
    SubSeq(list, 1, IF n = 0 THEN 0 ELSE Len(list) - n)

\* os.remove of each name of a list
RECURSIVE RemoveAll(_, _)
RemoveAll(fs, names) ==
    IF names = <<>> THEN fs
    ELSE RemoveAll([fs EXCEPT ![Head(names)] = Absent], Tail(names))

cleanup_old_checkpoints(fs, max_checkpoints) ==
    IF \E x \in list_checkpoints(fs) : EmbeddedTimestamp(x) = NotANumber
    THEN [files |-> fs, ret |-> 0]
    ELSE LET checkpoints == SortedCheckpoints(list_checkpoints(fs))
             old == IF Len(checkpoints) > max_checkpoints
                    THEN SliceUntilMinus(checkpoints, max_checkpoints)
                    ELSE <<>>
         IN  [files |-> RemoveAll(fs, old), ret |-> Len(old)]

\* create_checkpoint: the result of save_blockchain is not looked at
create_checkpoint(fs, self, checkpoint_name, time, order, tmp, fail) ==
    LET name == IF checkpoint_name = None THEN CheckpointName(time)
                ELSE checkpoint_name.name
        r == save_blockchain(fs, self, name, order, tmp, fail)
    IN  [files |-> r.files, ret |-> name, saved |-> r.ret]

restore_checkpoint(fs, self, checkpoint_name) ==
    load_blockchain(fs, self, checkpoint_name)

----------------------------------------------------------------------------
(* ProofOfWork (src/pow_miner.py). A Python number is the record of its    *)
(* value, counted in hundredths, and of its type, int or float: the type   *)
(* decides whether "0" * difficulty is defined. target_time is a fraction  *)
(* <<numerator, denominator>>.                                             *)

PyInt(n) == [value |-> 100 * n, type |-> "int"]
PyFloat(hundredths) == [value |-> hundredths, type |-> "float"]

ProofOfWork(initial_difficulty, target_time, adjustment_factor) ==
    [ difficulty |-> initial_difficulty,
      target_time |-> target_time,
      adjustment_factor |-> adjustment_factor,
      blocks_mined |-> 0,
      total_time |-> 0,
      average_time |-> <<0, 1>>,
      last_difficulties |-> <<>> ]

\* hash_string.startswith('0' * difficulty), for a difficulty of type int
check_difficulty(hash_string, d) == StartsWithZeros(hash_string, d.value \div 100)

\* the while loop of mine_block from the given nonce on
RECURSIVE SearchNonce(_, _, _, _)
SearchNonce(block, d, nonce, max_nonce) ==
    IF nonce >= max_nonce THEN [found |-> FALSE, nonce |-> nonce, block |-> block]
    ELSE LET tried == [block EXCEPT !.nonce = nonce]
             hash_result == calculate_hash(tried)
         IN  IF check_difficulty(hash_result, d)
             THEN [found |-> TRUE, nonce |-> nonce,
                   block |-> [tried EXCEPT !.hash = hash_result]]
             ELSE SearchNonce(tried, d, nonce + 1, max_nonce)

\* the statistics with a window that drops its newest entry when it is full
RecordMined_DropsNewest(self, time_taken) ==
    LET appended == Append(self.last_difficulties, self.difficulty)
    IN  [self EXCEPT
            !.blocks_mined = @ + 1,
            !.total_time = @ + time_taken,
            !.average_time = <<self.total_time + time_taken, self.blocks_mined + 1>>,
            !.last_difficulties = IF Len(appended) > 10 THEN self.last_difficulties
                                  ELSE appended]

\* the statistics after a block was mined in time_taken
RecordMined(self, time_taken) ==
    LET appended == Append(self.last_difficulties, self.difficulty)
    IN  [self EXCEPT
            !.blocks_mined = @ + 1,
            !.total_time = @ + time_taken,
            !.average_time = <<self.total_time + time_taken, self.blocks_mined + 1>>,
            !.last_difficulties = IF Len(appended) > 10 THEN Tail(appended) ELSE appended]

PowResult(self, block, success, nonce, hash, time_taken, exc) ==
    [ self |-> self, block |-> block, exc |-> exc,
      ret |-> [success |-> success, nonce |-> nonce, hash |-> hash,
               time_taken |-> time_taken] ]

\* ProofOfWork.mine_block(block, max_nonce); time_taken is the time that passes
\* during the call. check_difficulty raises TypeError for a difficulty of type
\* float, at the first nonce
ProofOfWork_mine_block(self, block, max_nonce, time_taken) ==
    IF max_nonce <= 0
    THEN PowResult(self, block, FALSE, 0, None, time_taken, "none")
    ELSE IF self.difficulty.type = "float"
    THEN PowResult(self, [block EXCEPT !.nonce = 0], FALSE, 0, None, 0, "TypeError")
    ELSE LET s == SearchNonce(block, self.difficulty, 0, max_nonce)
         IN  IF s.found
             THEN PowResult(RecordMined(self, time_taken), s.block, TRUE, s.nonce,
                            s.block.hash, time_taken, "none")
             ELSE PowResult(self, s.block, FALSE, s.nonce, None, time_taken, "none")

\* round(x) of Python for x >= 0 in hundredths: the nearest integer, the even one
\* of the two when x is halfway
Round(x) ==
    LET q == x \div 100
        r == x % 100
    IN  IF r < 50 THEN q
        ELSE IF r > 50 THEN q + 1
        ELSE IF q % 2 = 0 THEN q ELSE q + 1

\* max(1, d)
AtLeastOne(d) == IF d.value <= 100 THEN PyInt(1) ELSE d

\* adjust_difficulty that rounds to the nearest whole number
ProofOfWork_adjust_difficulty_Whole(self, time_taken) ==
    IF self.blocks_mined < 3 THEN self
    ELSE LET num == self.target_time[1]
             den == self.target_time[2]
             moved == IF 10 * time_taken * den < 8 * num
                      THEN PyFloat(self.difficulty.value + self.adjustment_factor)
                      ELSE IF 10 * time_taken * den > 12 * num
                      THEN PyFloat(self.difficulty.value - self.adjustment_factor)
                      ELSE self.difficulty
         IN  [self EXCEPT !.difficulty = PyFloat(Round(AtLeastOne(moved).value) * 100)]

\* ProofOfWork.adjust_difficulty(time_taken): ratio = time_taken / target_time is
\* compared with 0.8 and 1.2 by cross-multiplication; round(d * 2) / 2 is a float
ProofOfWork_adjust_difficulty(self, time_taken) ==
    IF self.blocks_mined < 3 THEN self
    ELSE LET num == self.target_time[1]
             den == self.target_time[2]
             moved == IF 10 * time_taken * den < 8 * num
                      THEN PyFloat(self.difficulty.value + self.adjustment_factor)
                      ELSE IF 10 * time_taken * den > 12 * num
                      THEN PyFloat(self.difficulty.value - self.adjustment_factor)
                      ELSE self.difficulty
         IN  [self EXCEPT !.difficulty = PyFloat(Round(2 * AtLeastOne(moved).value) * 50)]

----------------------------------------------------------------------------
(* IoTOptimizedMiner: the power mode and what it does to the engine *)

MaxTemperature == 70
MaxCpuPercent == 80

\* temperature is None, cpu_percent is None
NoReading == -1

RECURSIVE GCD(_, _)
GCD(a, b) == IF b = 0 THEN a ELSE GCD(b, a % b)

\* the fraction t * a / b in lowest terms
Times(t, a, b) ==
    LET n == t[1] * a
        d == t[2] * b
    IN  <<n \div GCD(n, d), d \div GCD(n, d)>>

\* _apply_power_mode whose low mode subtracts 1 with no floor
apply_power_mode_NoFloor(self, mode) ==
    IF mode = "low"
    THEN [self EXCEPT
            !.difficulty = [@ EXCEPT !.value = @ - 100],
            !.target_time = Times(@, 3, 2)]
    ELSE IF mode = "normal"
    THEN [self EXCEPT !.target_time = <<10, 1>>]
    ELSE [self EXCEPT
            !.difficulty = PyFloat(@.value + 50),
            !.target_time = IF 4 * @[1] <= 25 * @[2] THEN <<5, 1>> ELSE Times(@, 4, 5)]

\* _apply_power_mode, for the mode that was just set
apply_power_mode(self, mode) ==
    IF mode = "low"
    THEN [self EXCEPT
            !.difficulty = IF @.value - 100 <= 100 THEN PyInt(1)
                           ELSE [@ EXCEPT !.value = @ - 100],
            !.target_time = Times(@, 3, 2)]
    ELSE IF mode = "normal"
    THEN [self EXCEPT !.target_time = <<10, 1>>]
    ELSE [self EXCEPT
            !.difficulty = PyFloat(@.value + 50),
            !.target_time = IF 4 * @[1] <= 25 * @[2] THEN <<5, 1>> ELSE Times(@, 4, 5)]

\* _adjust_mining_for_resources that falls back to normal mode when it has no
\* reading
adjust_mining_for_resources_ResetsUnknown(self, old_mode, temperature, cpu_percent) ==
    IF temperature = NoReading /\ cpu_percent = NoReading
    THEN [pow |-> apply_power_mode(self, "normal"), power_mode |-> "normal"]
    ELSE LET byTemperature ==
                 IF temperature = NoReading THEN old_mode
                 ELSE IF temperature > MaxTemperature THEN "low"
                 ELSE IF 10 * temperature > 9 * MaxTemperature THEN "normal"
                 ELSE IF cpu_percent = NoReading \/ 10 * cpu_percent < 8 * MaxCpuPercent
                 THEN "high"
                 ELSE old_mode
             mode ==
                 IF cpu_percent = NoReading THEN byTemperature
                 ELSE IF cpu_percent > MaxCpuPercent THEN "low"
                 ELSE IF 10 * cpu_percent > 9 * MaxCpuPercent THEN "normal"
                 ELSE byTemperature
         IN  IF old_mode # mode
             THEN [pow |-> apply_power_mode(self, mode), power_mode |-> mode]
             ELSE [pow |-> self, power_mode |-> old_mode]

\* _adjust_mining_for_resources(temperature, cpu_percent): the engine and the mode
\* after the call; x > max * 0.9 is 10 * x > 9 * max, x < max * 0.8 is 10 * x < 8 * max
adjust_mining_for_resources(self, old_mode, temperature, cpu_percent) ==
    IF temperature = NoReading /\ cpu_percent = NoReading
    THEN [pow |-> self, power_mode |-> old_mode]
    ELSE LET byTemperature ==
                 IF temperature = NoReading THEN old_mode
                 ELSE IF temperature > MaxTemperature THEN "low"
                 ELSE IF 10 * temperature > 9 * MaxTemperature THEN "normal"
                 ELSE IF cpu_percent = NoReading \/ 10 * cpu_percent < 8 * MaxCpuPercent
                 THEN "high"
                 ELSE old_mode
             mode ==
                 IF cpu_percent = NoReading THEN byTemperature
                 ELSE IF cpu_percent > MaxCpuPercent THEN "low"
                 ELSE IF 10 * cpu_percent > 9 * MaxCpuPercent THEN "normal"
                 ELSE byTemperature
         IN  IF old_mode # mode
             THEN [pow |-> apply_power_mode(self, mode), power_mode |-> mode]
             ELSE [pow |-> self, power_mode |-> old_mode]

----------------------------------------------------------------------------
(* The sequential interface: one action per handler *)

\* bg: the mining thread; bg2: the mining thread of a second start; fg: the
\* caller of create_transaction; autosave: the thread of _auto_save_loop; saver:
\* a caller of save_blockchain; stopper: the caller of start_mining_thread and
\* stop_mining_thread, of start_auto_save and stop_auto_save; as1, as2: the
\* threads of _auto_save_loop with the statements of the loop
Threads == {"bg", "bg2", "fg", "autosave", "saver", "stopper", "as1", "as2"}

\* the threads whose target is _mining_loop
LoopThreads == {"bg", "bg2"}

\* self.mining_thread = None
NoThread == "none"

NoCall == [op |-> "init", arg |-> 0, ret |-> 0, exc |-> "none", pre |-> Blockchain(0)]

InitBlockchain ==
    /\ \E d \in 1..MaxDifficulty :
          /\ chain = Blockchain(d).chain
          /\ pending_transactions = Blockchain(d).pending_transactions
          /\ difficulty = Blockchain(d).difficulty
          /\ nodes = Blockchain(d).nodes
    /\ now = 0
    /\ last = NoCall
    /\ tampered = FALSE
    /\ pc = [t \in Threads |-> "idle"]
    /\ loc = [t \in Threads |-> <<>>]
    /\ midmine = {}
    /\ stop_mining = FALSE
    /\ mining_thread = NoThread
    /\ running = FALSE
    /\ save_thread = NoThread

Init ==
    /\ InitBlockchain
    /\ peer_chains = [n \in AllPeers |-> <<>>]
    /\ files = [f \in FileNames |-> Absent]
    /\ saved = [f \in FileNames |-> Blockchain(0)]
    /\ pow = ProofOfWork(PyInt(DefaultDifficulty), <<10, 1>>, 20)
    /\ power_mode = "normal"
    /\ configured_target_time = <<10, 1>>

\* no call has completed that its caller has not yet taken the result of
Idle == last.op = "init"

\* the object after a call, and the record of the call
Call(op, arg, r) ==
    /\ Idle
    /\ chain' = r.self.chain
    /\ pending_transactions' = r.self.pending_transactions
    /\ difficulty' = r.self.difficulty
    /\ nodes' = r.self.nodes
    /\ last' = [op |-> op, arg |-> arg, ret |-> r.ret, exc |-> r.exc, pre |-> Self]

Tick ==
    /\ Idle
    /\ now < MaxTime
    /\ now' = now + 1
    /\ UNCHANGED <<bcVars, last, tampered, extVars, thVars>>

\* run_gui.py: an empty chain is given its genesis block
AppendGenesis ==
    /\ Idle
    /\ chain = <<>>
    /\ chain' = <<create_genesis_block(now)>>
    /\ last' = [op |-> "genesis", arg |-> 0, ret |-> 0, exc |-> "none", pre |-> Self]
    /\ UNCHANGED <<pending_transactions, difficulty, nodes, now, tampered, extVars, thVars>>

\* the transactions held in the pending pool and in the blocks of the chain
RECURSIVE ChainTxs(_)
ChainTxs(c) ==
    IF c = <<>> THEN <<>>
    ELSE ChainTxs(SubSeq(c, 1, Len(c) - 1)) \o
         (IF "transactions" \in DOMAIN c[Len(c)].data
          THEN c[Len(c)].data.transactions ELSE <<>>)

AddTransactionUpTo(bound) ==
    /\ Len(ChainTxs(chain)) + Len(pending_transactions) < bound
    /\ \/ LET arg == [type |-> "Transaction", v |-> Transaction("A", now, MinerAddress)]
          IN  Call("add_transaction", arg, add_transaction(Self, arg))
       \/ LET d == [Transaction_to_dict(Transaction("B", now, PeerDevice))
                       EXCEPT !.transaction_id = <<"B", now + 1, PeerDevice>>]
              arg == [type |-> "dict", v |-> d]
          IN  Call("add_transaction", arg, add_transaction(Self, arg))
       \/ LET arg == [type |-> "int", v |-> 0]
          IN  Call("add_transaction", arg, add_transaction(Self, arg))
    /\ UNCHANGED <<now, tampered, extVars, thVars>>

AddTransaction == AddTransactionUpTo(MaxTx)

MineUpTo(bound) ==
    /\ Len(chain) < bound
    /\ Call("mine_pending_transactions", MinerAddress,
            mine_pending_transactions(Self, MinerAddress, now))
    /\ UNCHANGED <<now, tampered, extVars, thVars>>

MinePendingTransactions == MineUpTo(MaxChain)

\* blocks produced outside this chain: built on the tip or on "0", with the next
\* index or another, mined at the chain's difficulty or not at all, and with the
\* nonce left as mined or changed afterwards
ExternalBlock(index, previous_hash, d, intact) ==
    LET b == mine_block(Block(index, now, [transactions |-> <<>>, count |-> 0],
                              previous_hash, PeerDevice), d)
    IN  IF intact THEN b ELSE [b EXCEPT !.nonce = @ + 1]

AddBlock ==
    /\ Len(chain) < MaxChain
    /\ \/ \E index \in {Len(chain), Len(chain) + 1}, onTip \in BOOLEAN,
             d \in {0, difficulty}, intact \in BOOLEAN, type \in {"Block", "dict"} :
             LET prev == IF onTip /\ chain # <<>> THEN get_latest_block(Self).hash ELSE Str0
                 b == ExternalBlock(index, prev, d, intact)
                 arg == [type |-> type, v |-> IF type = "dict" THEN Block_to_dict(b) ELSE b]
             IN  Call("add_block", arg, add_block(Self, arg))
       \/ LET arg == [type |-> "int", v |-> 0]
          IN  Call("add_block", arg, add_block(Self, arg))
    /\ UNCHANGED <<now, tampered, extVars, thVars>>

TargetTimes == {<<10, 1>>, <<1, 10>>}

AdjustDifficulty ==
    /\ \E target_time \in TargetTimes :
          /\ adjust_difficulty(Self, target_time).self.difficulty <= MaxDifficulty
          /\ Call("adjust_difficulty", target_time, adjust_difficulty(Self, target_time))
    /\ UNCHANGED <<now, tampered, extVars, thVars>>

RegisterFrom(S) ==
    /\ \E n \in S : Call("register_node", n, register_node(Self, n))
    /\ UNCHANGED <<now, tampered, extVars, thVars>>

RegisterNode == RegisterFrom(Peers)

\* the caller takes the result of the call
Return ==
    /\ ~ Idle
    /\ last' = NoCall
    /\ UNCHANGED <<bcVars, now, tampered, extVars, thVars>>

Next ==
    \/ Return
    \/ AppendGenesis
    \/ AddTransaction
    \/ MinePendingTransactions
    \/ AddBlock
    \/ AdjustDifficulty
    \/ RegisterNode

Spec == Init /\ [][Next]_vars

----------------------------------------------------------------------------
(* A stored block changed in place: the attributes of a Block are plain   *)
(* assignable attributes, and the chain is a list of references.           *)

BlockFields == {"index", "timestamp", "data", "previous_hash", "device_id", "nonce", "hash"}

\* block b with field f set to another value, the hash not recomputed
TamperField(b, f) ==
    CASE f = "index"         -> [b EXCEPT !.index = @ + 1]
      [] f = "timestamp"     -> [b EXCEPT !.timestamp = @ + 1]
      [] f = "data"          -> [b EXCEPT !.data = [message |-> "tampered"]]
      [] f = "previous_hash" -> [b EXCEPT !.previous_hash = [lead |-> <<1>>, body |-> <<>>]]
      [] f = "device_id"     -> [b EXCEPT !.device_id = "intruder"]
      [] f = "nonce"         -> [b EXCEPT !.nonce = @ + 1]
      [] f = "hash"          -> [b EXCEPT !.hash = [lead |-> @.lead, body |-> <<"tampered">>]]

Tamper ==
    /\ Idle
    /\ ~ tampered
    /\ is_chain_valid(Self)
    /\ \E i \in 1..Len(chain), f \in BlockFields :
          chain' = [chain EXCEPT ![i] = TamperField(chain[i], f)]
    /\ tampered' = TRUE
    /\ UNCHANGED <<pending_transactions, difficulty, nodes, now, last, thVars, extVars>>

NextTamper ==
    \/ ~ tampered /\ Next
    \/ Tamper

SpecTamper == Init /\ [][NextTamper]_vars

----------------------------------------------------------------------------
(* Chains long enough for adjust_difficulty to act *)

DeepExtra == 1         \* blocks mined beyond the AdjustWindow under SpecDeep

DeepMine == MineUpTo(AdjustWindow + DeepExtra)

NextDeep ==
    \/ Return
    \/ Tick
    \/ DeepMine
    \/ AdjustDifficulty

SpecDeep == Init /\ [][NextDeep]_vars

----------------------------------------------------------------------------
(* Threads: the background mining loop (ProofOfWork._mining_loop) and a    *)
(* foreground caller of MiningNode.create_transaction, both calling        *)
(* mine_pending_transactions on the same Blockchain with no lock. A step   *)
(* is a statement of the code; the interpreter may switch threads between  *)
(* any two of them.                                                         *)

MaxCalls == 2          \* create_transaction calls of the foreground thread
MaxConcChain == 3      \* longest chain built under SpecConc

Mining == {"m_read", "m_build", "m_count", "m_mine", "m_append", "m_clear"}

\* where a thread continues when its mine_pending_transactions call returns
AfterMine(t) == IF t \in LoopThreads THEN "loop" ELSE "idle"

ThreadStep(t, from, to) ==
    /\ pc[t] = from
    /\ pc' = [pc EXCEPT ![t] = to]

\* pow_miner.py start_mining_thread: the loop thread starts
StartMiningThread ==
    /\ ThreadStep("bg", "idle", "loop")
    /\ stop_mining' = FALSE
    /\ mining_thread' = "bg"
    /\ UNCHANGED <<bcVars, now, last, tampered, peer_chains, files, saved, pow,
                   power_mode, configured_target_time, autoVars, loc, midmine>>

\* _mining_loop, line 213: while not self.stop_mining.is_set()
LoopTestOf(t) ==
    /\ ThreadStep(t, "loop", IF stop_mining THEN "idle" ELSE "check")
    /\ UNCHANGED <<bcVars, now, last, tampered, extVars, loc, midmine>>

LoopTest == LoopTestOf("bg")

\* _mining_loop, lines 216-222: sleep and continue when nothing is pending,
\* else call mine_pending_transactions
LoopCheckPendingOf(t) ==
    /\ pc[t] = "check"
    /\ pc' = [pc EXCEPT ![t] = IF pending_transactions = <<>> THEN "loop" ELSE "m_read"]
    /\ UNCHANGED <<bcVars, now, last, tampered, extVars, loc, midmine>>

LoopCheckPending == LoopCheckPendingOf("bg")

\* create_transaction, lines 118-124: a Transaction stamped with the time is
\* added to the pending pool
CreateTransaction ==
    /\ now < MaxCalls
    /\ ThreadStep("fg", "idle", "m_read")
    /\ \E c \in Contents :
          LET arg == [type |-> "Transaction", v |-> Transaction(c, now, MinerAddress)]
          IN  /\ pending_transactions' = add_transaction(Self, arg).self.pending_transactions
              /\ midmine' = IF \E u \in Threads \ {"fg"} : pc[u] \in Mining
                            THEN midmine \cup {arg.v} ELSE midmine
    /\ now' = now + 1
    /\ UNCHANGED <<chain, difficulty, nodes, last, tampered, extVars, loc>>

\* mine_pending_transactions, lines 56-57
MineRead(t) ==
    /\ Len(chain) < MaxConcChain
    /\ ThreadStep(t, "m_read", "m_build")
    /\ loc' = [loc EXCEPT ![t] = [previous_hash |-> TipHash(Self), index |-> Len(chain)]]
    /\ UNCHANGED <<bcVars, now, last, tampered, extVars, midmine>>

\* mine_pending_transactions, lines 61-63: time.time(), then the list of the
\* pending transactions' dictionaries, built from the pool as it is now
MineBuild(t) ==
    /\ ThreadStep(t, "m_build", "m_count")
    /\ loc' = [loc EXCEPT ![t] =
                  [ previous_hash |-> loc[t].previous_hash,
                    index |-> loc[t].index,
                    timestamp |-> now,
                    transactions |->
                        [i \in 1..Len(pending_transactions) |->
                            Transaction_to_dict(pending_transactions[i])] ]]
    /\ UNCHANGED <<bcVars, now, last, tampered, extVars, midmine>>

\* mine_pending_transactions, lines 59-68: "count" is the length of the pool as
\* it is now, a second read of self.pending_transactions, and the Block is made
MineCount(t) ==
    /\ ThreadStep(t, "m_count", "m_mine")
    /\ loc' = [loc EXCEPT ![t] =
                  [block |-> Block(loc[t].index, loc[t].timestamp,
                                   [ transactions |-> loc[t].transactions,
                                     count |-> Len(pending_transactions) ],
                                   loc[t].previous_hash, MinerAddress)]]
    /\ UNCHANGED <<bcVars, now, last, tampered, extVars, midmine>>

\* the nonce search at the difficulty of the ProofOfWork engine, whole zeros of
\* it and no more than a digest has digits
MineSearch_AtEngineDifficulty(t) ==
    /\ ThreadStep(t, "m_mine", "m_append")
    /\ loc' = [loc EXCEPT ![t] =
                  [block |-> mine_block(loc[t].block,
                                        IF pow.difficulty.value \div 100 > DigestLen
                                        THEN DigestLen
                                        ELSE pow.difficulty.value \div 100)]]
    /\ UNCHANGED <<bcVars, now, last, tampered, extVars, midmine>>

\* mine_pending_transactions, line 70
MineSearch(t) ==
    /\ ThreadStep(t, "m_mine", "m_append")
    /\ loc' = [loc EXCEPT ![t] = [block |-> mine_block(loc[t].block, difficulty)]]
    /\ UNCHANGED <<bcVars, now, last, tampered, extVars, midmine>>

\* mine_pending_transactions, line 71
MineAppend(t) ==
    /\ ThreadStep(t, "m_append", "m_clear")
    /\ chain' = Append(chain, loc[t].block)
    /\ UNCHANGED <<pending_transactions, difficulty, nodes, now, last, tampered, extVars, loc, midmine>>

\* mine_pending_transactions, lines 72-73
MineClear(t) ==
    /\ ThreadStep(t, "m_clear", AfterMine(t))
    /\ pending_transactions' = <<>>
    /\ loc' = [loc EXCEPT ![t] = <<>>]
    /\ UNCHANGED <<chain, difficulty, nodes, now, last, tampered, extVars, midmine>>

NextConc ==
    \/ StartMiningThread
    \/ LoopTest
    \/ LoopCheckPending
    \/ CreateTransaction
    \/ \E t \in Threads : MineRead(t)
    \/ \E t \in Threads : MineBuild(t)
    \/ \E t \in Threads : MineCount(t)
    \/ \E t \in Threads : MineSearch(t)
    \/ \E t \in Threads : MineAppend(t)
    \/ \E t \in Threads : MineClear(t)

SpecConc == Init /\ [][NextConc]_vars

----------------------------------------------------------------------------
(* Stopping the mining loop: stop_mining_thread sets the Event, waits for  *)
(* the thread for at most two seconds and forgets it. The nonce search of  *)
(* mine_pending_transactions has no time limit, so the wait can end while  *)
(* the thread is inside that call.                                         *)

\* a caller of Blockchain.add_transaction fills the pending pool
SubmitToPool ==
    /\ now < MaxCalls
    /\ \E c \in Contents :
          LET arg == [type |-> "Transaction", v |-> Transaction(c, now, MinerAddress)]
          IN  pending_transactions' = add_transaction(Self, arg).self.pending_transactions
    /\ now' = now + 1
    /\ UNCHANGED <<chain, difficulty, nodes, last, tampered, extVars, thVars>>

\* stop_mining_thread, lines 194-198: False when there is no live thread, else
\* self.stop_mining.set()
StopMiningThread ==
    /\ pc["stopper"] = "idle"
    /\ IF mining_thread = NoThread \/ pc[mining_thread] = "idle"
       THEN /\ last' = [op |-> "stop_mining_thread", arg |-> 0, ret |-> FALSE,
                        exc |-> "none", pre |-> Self]
            /\ UNCHANGED <<pc, stop_mining>>
       ELSE /\ stop_mining' = TRUE
            /\ pc' = [pc EXCEPT !["stopper"] = "st_join"]
            /\ UNCHANGED last
    /\ UNCHANGED <<bcVars, now, tampered, peer_chains, files, saved, pow, power_mode,
                   mining_thread, configured_target_time, autoVars, loc, midmine>>

\* stop_mining_thread, lines 199-203: join(timeout=2) returns when the thread
\* has ended, or when two seconds have passed while it mines; then
\* self.mining_thread = None and return True
StopJoin ==
    /\ pc["stopper"] = "st_join"
    /\ pc[mining_thread] = "idle" \/ pc[mining_thread] \in Mining
    /\ pc' = [pc EXCEPT !["stopper"] = "idle"]
    /\ mining_thread' = NoThread
    /\ last' = [op |-> "stop_mining_thread", arg |-> 0, ret |-> TRUE,
                exc |-> "none", pre |-> Self]
    /\ UNCHANGED <<bcVars, now, tampered, peer_chains, files, saved, pow, power_mode,
                   stop_mining, configured_target_time, autoVars, loc, midmine>>

NextStop ==
    \/ StartMiningThread
    \/ LoopTest
    \/ LoopCheckPending
    \/ MineRead("bg")
    \/ MineBuild("bg")
    \/ MineCount("bg")
    \/ MineSearch("bg")
    \/ MineAppend("bg")
    \/ MineClear("bg")
    \/ SubmitToPool
    \/ StopMiningThread
    \/ StopJoin

SpecStop == Init /\ [][NextStop]_vars

----------------------------------------------------------------------------
(* Starting the mining loop again: start_mining_thread looks at the thread *)
(* self.mining_thread names, which stop_mining_thread sets to None whether *)
(* or not the thread has ended.                                            *)

\* the mining loops that have not ended
Running == {t \in LoopThreads : pc[t] # "idle"}

\* start_mining_thread, lines 172-185, called by the thread that calls
\* stop_mining_thread: False when self.mining_thread is alive, else the Event
\* is cleared and a new Thread is started; pre is the set of the loops that
\* run when the call is made
StartMining ==
    /\ pc["stopper"] = "idle"
    /\ IF mining_thread # NoThread /\ pc[mining_thread] # "idle"
       THEN /\ last' = [op |-> "start_mining_thread", arg |-> 0, ret |-> FALSE,
                        exc |-> "none", pre |-> Running]
            /\ UNCHANGED <<pc, stop_mining, mining_thread>>
       ELSE \E t \in LoopThreads \ Running :
               /\ stop_mining' = FALSE
               /\ mining_thread' = t
               /\ pc' = [pc EXCEPT ![t] = "loop"]
               /\ last' = [op |-> "start_mining_thread", arg |-> 0, ret |-> TRUE,
                           exc |-> "none", pre |-> Running]
    /\ UNCHANGED <<bcVars, now, tampered, peer_chains, files, saved, pow, power_mode,
                   configured_target_time, autoVars, loc, midmine>>

NextStart ==
    \/ StartMining
    \/ StopMiningThread
    \/ StopJoin
    \/ SubmitToPool
    \/ \E t \in LoopThreads : LoopTestOf(t)
    \/ \E t \in LoopThreads : LoopCheckPendingOf(t)
    \/ \E t \in LoopThreads : MineRead(t)
    \/ \E t \in LoopThreads : MineBuild(t)
    \/ \E t \in LoopThreads : MineCount(t)
    \/ \E t \in LoopThreads : MineSearch(t)
    \/ \E t \in LoopThreads : MineAppend(t)
    \/ \E t \in LoopThreads : MineClear(t)

SpecStart == Init /\ [][NextStart]_vars

----------------------------------------------------------------------------
(* Reconciliation with the peers: each registered peer serves the chain of *)
(* its own Blockchain, which was grown at the peer's difficulty and may    *)
(* have a block changed after it was mined                                 *)

MaxPeerChain == 3      \* longest chain a peer serves

\* a peer's Blockchain of n blocks: the genesis block, then mined blocks
RECURSIVE PeerBlockchain(_, _)
PeerBlockchain(n, d) ==
    IF n = 0 THEN Blockchain(d)
    ELSE IF n = 1 THEN [Blockchain(d) EXCEPT !.chain = <<create_genesis_block(0)>>]
    ELSE mine_pending_transactions(PeerBlockchain(n - 1, d), PeerDevice, 0).self

\* what the peer's endpoint returns: [block.to_dict() for block in chain]
PeerChain(n, d, intact) ==
    LET c == PeerBlockchain(n, d).chain
        dicts == [k \in 1..Len(c) |-> Block_to_dict(c[k])]
    IN  IF intact \/ n = 0 THEN dicts
        ELSE [dicts EXCEPT ![n].nonce = @ + 1]

PeerChains ==
    {PeerChain(n, d, intact) : n \in 0..MaxPeerChain, d \in 1..DefaultDifficulty,
                               intact \in BOOLEAN}

InitPeers ==
    /\ InitBlockchain
    /\ peer_chains \in [AllPeers -> PeerChains]
    /\ files = [f \in FileNames |-> Absent]
    /\ saved = [f \in FileNames |-> Blockchain(0)]
    /\ pow = ProofOfWork(PyInt(DefaultDifficulty), <<10, 1>>, 20)
    /\ power_mode = "normal"
    /\ configured_target_time = <<10, 1>>

\* the sequences that enumerate the set S once each
Orders(S) ==
    {o \in [1..Cardinality(S) -> S] : \A i, j \in 1..Cardinality(S) : o[i] = o[j] => i = j}

\* the record of the call holds the calls made to get_chain_function as well
ResolveConflicts ==
    /\ Idle
    /\ \E order \in Orders(nodes) :
          LET r == resolve_conflicts(Self, order, peer_chains)
          IN  /\ chain' = r.self.chain
              /\ pending_transactions' = r.self.pending_transactions
              /\ difficulty' = r.self.difficulty
              /\ nodes' = r.self.nodes
              /\ last' = [op |-> "resolve_conflicts", arg |-> order, ret |-> r.ret,
                          exc |-> r.exc, pre |-> Self, fetched |-> r.fetched]
    /\ UNCHANGED <<now, tampered, extVars, thVars>>

RegisterPeer == RegisterFrom(AllPeers)

NextPeers ==
    \/ Return
    \/ AppendGenesis
    \/ MinePendingTransactions
    \/ RegisterPeer
    \/ ResolveConflicts

SpecPeers == InitPeers /\ [][NextPeers]_vars

\* reconciliation of a chain that holds a pending pool, with shorter chains on
\* both sides
MaxResolveChain == 2   \* longest local chain and longest peer chain
MaxResolveTx == 1      \* transactions submitted

InitResolve ==
    /\ InitPeers
    /\ \A n \in AllPeers : Len(peer_chains[n]) <= MaxResolveChain

NextResolve ==
    \/ Return
    \/ AppendGenesis
    \/ AddTransactionUpTo(MaxResolveTx)
    \/ MineUpTo(MaxResolveChain)
    \/ RegisterPeer
    \/ ResolveConflicts

SpecResolve == InitResolve /\ [][NextResolve]_vars

----------------------------------------------------------------------------
(* Persistence, one call at a time: the process saves its Blockchain, is   *)
(* started again with a new Blockchain and loads the file; other programs  *)
(* may leave files of their own in data_dir                                *)

MaxStoreChain == 2     \* longest chain built under SpecStore
MaxStoreTx == 1        \* transactions submitted under SpecStore

NoSave == Blockchain(0)

\* the statement of save_blockchain that raises; a failure of os.replace, which
\* leaves a whole document under the temporary name, is taken under SpecSave
SaveFailures == {"none", "open", "dump"}

SaveBlockchain ==
    /\ Idle
    /\ \E order \in Orders(nodes), tmp \in {t \in TempNames : files[t] = Absent},
          fail \in SaveFailures :
          LET r == save_blockchain(files, Self, Target, order, tmp, fail)
          IN  /\ files' = r.files
              /\ saved' = IF r.ret THEN [saved EXCEPT ![Target] = Self] ELSE saved
              /\ last' = [op |-> "save_blockchain", arg |-> Target, ret |-> r.ret,
                          exc |-> "none", pre |-> Self]
    /\ UNCHANGED <<bcVars, now, tampered, thVars, peer_chains, pow, power_mode,
                 ctlVars, configured_target_time, autoVars>>

LoadBlockchain ==
    /\ Call("load_blockchain", Target, load_blockchain(files, Self, Target))
    /\ UNCHANGED <<now, tampered, extVars, thVars>>

\* files that this program did not write: text that is not JSON, a document
\* without "chain", a block without its keys, a document of "chain" alone
ForeignContents ==
    { Unparsable,
      Document([difficulty |-> 1]),
      Document([chain |-> <<[index |-> 0]>>, difficulty |-> 1]),
      Document([chain |-> <<>>]) }

ForeignWrite ==
    /\ Idle
    /\ \E c \in ForeignContents : files' = [files EXCEPT ![Target] = c]
    /\ saved' = [saved EXCEPT ![Target] = NoSave]
    /\ UNCHANGED <<bcVars, now, last, tampered, thVars, peer_chains, pow, power_mode,
                 ctlVars, configured_target_time, autoVars>>

\* the process ends and is started again: it constructs Blockchain(difficulty=d)
\* and a BlockchainState, and calls load_blockchain() before anything else
Restart ==
    /\ \E d \in 1..MaxDifficulty :
          /\ Idle
          /\ LET r == load_blockchain(files, Blockchain(d), Target)
             IN  /\ chain' = r.self.chain
                 /\ pending_transactions' = r.self.pending_transactions
                 /\ difficulty' = r.self.difficulty
                 /\ nodes' = r.self.nodes
                 /\ last' = [op |-> "load_blockchain", arg |-> Target, ret |-> r.ret,
                             exc |-> r.exc, pre |-> Blockchain(d)]
    /\ UNCHANGED <<now, tampered, extVars, thVars>>

MineStore == MineUpTo(MaxStoreChain)
AddTransactionStore == AddTransactionUpTo(MaxStoreTx)

NextStore ==
    \/ Return
    \/ AppendGenesis
    \/ AddTransactionStore
    \/ MineStore
    \/ RegisterNode
    \/ SaveBlockchain
    \/ LoadBlockchain
    \/ ForeignWrite
    \/ Restart

SpecStore == Init /\ [][NextStore]_vars

----------------------------------------------------------------------------
(* Persistence by two threads: BlockchainState starts the thread of        *)
(* _auto_save_loop when it is constructed, and the thread that owns the    *)
(* Blockchain calls save_blockchain itself. Each statement of              *)
(* save_blockchain is a step; a statement that raises ends the call.       *)

Savers == {"autosave", "saver"}
Saving == {"s_dict", "s_pending", "s_open", "s_dump", "s_replace"}

\* the threads of _auto_save_loop whose loop is followed statement by statement
AutoLoops == {"as1", "as2"}

\* where a thread continues when its save_blockchain call returns
AfterSave(t) == IF t \in AutoLoops THEN "a_sleep" ELSE "idle"

\* the calling thread works on its Blockchain between its saves
OwnerIdle == pc["saver"] = "idle"

GenesisOwner == OwnerIdle /\ AppendGenesis
MineOwner == OwnerIdle /\ MineStore
ReturnOwner == OwnerIdle /\ Return

\* save_blockchain is entered: by the loop of _auto_save_loop, or by the caller
SaveEnter(t) ==
    /\ pc[t] = "idle"
    /\ t = "saver" => Idle
    /\ pc' = [pc EXCEPT ![t] = "s_dict"]
    /\ UNCHANGED <<bcVars, now, last, tampered, extVars, loc, midmine>>

\* blockchain_dict = self.blockchain.to_dict()
SaveToDict(t) ==
    /\ pc[t] = "s_dict"
    /\ \E order \in Orders(nodes) :
          loc' = [loc EXCEPT ![t] = [blockchain_dict |-> to_dict(Self, order),
                                     of |-> Self]]
    /\ pc' = [pc EXCEPT ![t] = "s_open"]
    /\ UNCHANGED <<bcVars, now, last, tampered, extVars, midmine>>

\* with tempfile.NamedTemporaryFile(...) as tmp_file
SaveOpen(t) ==
    /\ pc[t] = "s_open"
    /\ \E tmp \in {n \in TempNames : files[n] = Absent} :
          /\ files' = CreateTemp(files, tmp)
          /\ loc' = [loc EXCEPT ![t] = [blockchain_dict |-> @.blockchain_dict,
                                        of |-> @.of, temp_name |-> tmp]]
    /\ pc' = [pc EXCEPT ![t] = "s_dump"]
    /\ UNCHANGED <<bcVars, now, last, tampered, midmine, peer_chains, saved, pow, power_mode,
                   ctlVars, configured_target_time, autoVars>>

\* json.dump(blockchain_dict, tmp_file, indent=2), and the file is closed
SaveDump(t) ==
    /\ pc[t] = "s_dump"
    /\ files' = Dump(files, loc[t].temp_name, loc[t].blockchain_dict)
    /\ pc' = [pc EXCEPT ![t] = "s_replace"]
    /\ UNCHANGED <<bcVars, now, last, tampered, loc, midmine, peer_chains, saved, pow, power_mode,
                   ctlVars, configured_target_time, autoVars>>

\* os.replace(temp_name, filepath); return True
SaveReplace(t) ==
    /\ pc[t] = "s_replace"
    /\ files' = Replace(files, loc[t].temp_name, Target)
    /\ saved' = [saved EXCEPT ![Target] = loc[t].of]
    /\ pc' = [pc EXCEPT ![t] = AfterSave(t)]
    /\ loc' = [loc EXCEPT ![t] = <<>>]
    /\ UNCHANGED <<bcVars, now, last, tampered, midmine, peer_chains, pow, power_mode,
                 ctlVars, configured_target_time, autoVars>>

\* the statement that the thread is at raises: except Exception, return False
SaveRaise(t) ==
    /\ pc[t] \in {"s_open", "s_dump", "s_replace"}
    /\ pc' = [pc EXCEPT ![t] = AfterSave(t)]
    /\ loc' = [loc EXCEPT ![t] = <<>>]
    /\ UNCHANGED <<bcVars, now, last, tampered, extVars, midmine>>

NextSave ==
    \/ GenesisOwner
    \/ MineOwner
    \/ ReturnOwner
    \/ \E t \in Savers : SaveEnter(t)
    \/ \E t \in Savers : SaveToDict(t)
    \/ \E t \in Savers : SaveOpen(t)
    \/ \E t \in Savers : SaveDump(t)
    \/ \E t \in Savers : SaveReplace(t)
    \/ \E t \in Savers : SaveRaise(t)

SpecSave == Init /\ [][NextSave]_vars

----------------------------------------------------------------------------
(* The autosave loop: start_auto_save and stop_auto_save look at the flag  *)
(* self.running alone; stop_auto_save waits for the thread for at most one *)
(* second, and a save has no time limit, so the wait can end while the     *)
(* thread is inside save_blockchain.                                       *)

\* the autosave loops that have not ended
AutoRunning == {t \in AutoLoops : pc[t] # "idle"}

\* start_auto_save, lines 83-92: False when self.running, else the flag is set
\* and a new Thread is started; pre is the set of the loops that run when the
\* call is made
StartAutoSave ==
    /\ pc["stopper"] = "idle"
    /\ IF running
       THEN /\ last' = [op |-> "start_auto_save", arg |-> 0, ret |-> FALSE,
                        exc |-> "none", pre |-> AutoRunning]
            /\ UNCHANGED <<pc, running, save_thread>>
       ELSE \E t \in AutoLoops \ AutoRunning :
               /\ running' = TRUE
               /\ save_thread' = t
               /\ pc' = [pc EXCEPT ![t] = "a_test"]
               /\ last' = [op |-> "start_auto_save", arg |-> 0, ret |-> TRUE,
                           exc |-> "none", pre |-> AutoRunning]
    /\ UNCHANGED <<bcVars, now, tampered, peer_chains, files, saved, pow, power_mode,
                   ctlVars, configured_target_time, loc, midmine>>

\* stop_auto_save, lines 94-98: False when not self.running, else
\* self.running = False
StopAutoSave ==
    /\ pc["stopper"] = "idle"
    /\ IF ~ running
       THEN /\ last' = [op |-> "stop_auto_save", arg |-> 0, ret |-> FALSE,
                        exc |-> "none", pre |-> AutoRunning]
            /\ UNCHANGED <<pc, running>>
       ELSE /\ running' = FALSE
            /\ pc' = [pc EXCEPT !["stopper"] = "sa_join"]
            /\ UNCHANGED last
    /\ UNCHANGED <<bcVars, now, tampered, peer_chains, files, saved, pow, power_mode,
                   ctlVars, configured_target_time, save_thread, loc, midmine>>

\* stop_auto_save, lines 99-103: join(timeout=1) returns when the thread has
\* ended, or when a second has passed while it saves; then
\* self.save_thread = None and return True
StopAutoJoin ==
    /\ pc["stopper"] = "sa_join"
    /\ pc[save_thread] = "idle" \/ pc[save_thread] \in Saving
    /\ pc' = [pc EXCEPT !["stopper"] = "idle"]
    /\ save_thread' = NoThread
    /\ last' = [op |-> "stop_auto_save", arg |-> 0, ret |-> TRUE,
                exc |-> "none", pre |-> AutoRunning]
    /\ UNCHANGED <<bcVars, now, tampered, peer_chains, files, saved, pow, power_mode,
                   ctlVars, configured_target_time, running, loc, midmine>>

\* _auto_save_loop, line 106: while self.running
AutoTest(t) ==
    /\ ThreadStep(t, "a_test", IF running THEN "a_save" ELSE "idle")
    /\ UNCHANGED <<bcVars, now, last, tampered, extVars, loc, midmine>>

\* _auto_save_loop, line 108: self.save_blockchain() is entered; of is the
\* Blockchain as it is when the call begins
AutoSaveEnter(t) ==
    /\ ThreadStep(t, "a_save", "s_dict")
    /\ loc' = [loc EXCEPT ![t] = [of |-> Self]]
    /\ UNCHANGED <<bcVars, now, last, tampered, extVars, midmine>>

\* _auto_save_loop, lines 109-112: the sleep of save_interval seconds, left at
\* the end of a second in which self.running is found False
AutoSleep(t) ==
    /\ ThreadStep(t, "a_sleep", "a_test")
    /\ UNCHANGED <<bcVars, now, last, tampered, extVars, loc, midmine>>

NextAuto ==
    \/ StartAutoSave
    \/ StopAutoSave
    \/ StopAutoJoin
    \/ \E t \in AutoLoops : AutoTest(t)
    \/ \E t \in AutoLoops : AutoSaveEnter(t)
    \/ \E t \in AutoLoops : SaveToDict(t)
    \/ \E t \in AutoLoops : SaveOpen(t)
    \/ \E t \in AutoLoops : SaveDump(t)
    \/ \E t \in AutoLoops : SaveReplace(t)
    \/ \E t \in AutoLoops : AutoSleep(t)

SpecAuto == Init /\ [][NextAuto]_vars

----------------------------------------------------------------------------
(* A process that is started over its file: MiningNode.initialize makes a  *)
(* Blockchain and a BlockchainState with auto_save=True, whose constructor *)
(* starts the thread of _auto_save_loop, and then calls load_blockchain.   *)
(* Before that, an earlier run of the process built the chain and saved it.*)

\* the process of the second run exists
Booted == pc["fg"] # "idle"

\* mining_node.py initialize, lines 33-39: Blockchain(difficulty=d), and
\* BlockchainState.__init__ with start_auto_save(); pre is the Blockchain that
\* the file holds
Boot ==
    /\ ~ Booted
    /\ Idle
    /\ files[Target] # Absent
    /\ saved[Target] # NoSave
    /\ \E d \in 1..MaxDifficulty :
          /\ chain' = Blockchain(d).chain
          /\ pending_transactions' = Blockchain(d).pending_transactions
          /\ difficulty' = Blockchain(d).difficulty
          /\ nodes' = Blockchain(d).nodes
          /\ last' = [op |-> "BlockchainState", arg |-> d, ret |-> 0, exc |-> "none",
                      pre |-> saved[Target]]
    /\ running' = TRUE
    /\ save_thread' = "as1"
    /\ pc' = [pc EXCEPT !["as1"] = "a_test", !["fg"] = "l_exists"]
    /\ UNCHANGED <<now, tampered, peer_chains, files, saved, pow, power_mode, ctlVars,
                   configured_target_time, loc, midmine>>

\* load_blockchain, lines 62-65: os.path.exists(filepath)
LoadExists ==
    /\ pc["fg"] = "l_exists"
    /\ IF files[Target] = Absent
       THEN /\ pc' = [pc EXCEPT !["fg"] = "l_done"]
            /\ loc' = [loc EXCEPT !["fg"] = [ret |-> FALSE]]
       ELSE /\ pc' = [pc EXCEPT !["fg"] = "l_read"]
            /\ UNCHANGED loc
    /\ UNCHANGED <<bcVars, now, last, tampered, extVars, midmine>>

\* load_blockchain, lines 67-70: json.load and Blockchain.from_dict; an
\* exception is caught and the call returns False
LoadRead ==
    /\ pc["fg"] = "l_read"
    /\ IF files[Target].kind # "json" \/ FromDictRaises(files[Target].doc)
       THEN /\ pc' = [pc EXCEPT !["fg"] = "l_done"]
            /\ loc' = [loc EXCEPT !["fg"] = [ret |-> FALSE]]
       ELSE /\ pc' = [pc EXCEPT !["fg"] = "l_chain"]
            /\ loc' = [loc EXCEPT !["fg"] =
                          [loaded_blockchain |-> from_dict(files[Target].doc)]]
    /\ UNCHANGED <<bcVars, now, last, tampered, extVars, midmine>>

\* load_blockchain, lines 72-78: the four assignments, one at a time, and
\* return True
LoadAssign ==
    /\ \/ /\ ThreadStep("fg", "l_chain", "l_difficulty")
          /\ chain' = loc["fg"].loaded_blockchain.chain
          /\ UNCHANGED <<pending_transactions, difficulty, nodes, loc>>
       \/ /\ ThreadStep("fg", "l_difficulty", "l_pending")
          /\ difficulty' = loc["fg"].loaded_blockchain.difficulty
          /\ UNCHANGED <<chain, pending_transactions, nodes, loc>>
       \/ /\ ThreadStep("fg", "l_pending", "l_nodes")
          /\ pending_transactions' = loc["fg"].loaded_blockchain.pending_transactions
          /\ UNCHANGED <<chain, difficulty, nodes, loc>>
       \/ /\ ThreadStep("fg", "l_nodes", "l_done")
          /\ nodes' = loc["fg"].loaded_blockchain.nodes
          /\ loc' = [loc EXCEPT !["fg"] = [ret |-> TRUE]]
          /\ UNCHANGED <<chain, difficulty, pending_transactions>>
    /\ UNCHANGED <<now, last, tampered, extVars, midmine>>

NextBoot ==
    \/ ~ Booted /\ Return
    \/ ~ Booted /\ AppendGenesis
    \/ ~ Booted /\ AddTransactionStore
    \/ ~ Booted /\ MineStore
    \/ ~ Booted /\ RegisterNode
    \/ ~ Booted /\ SaveBlockchain
    \/ Boot
    \/ LoadExists
    \/ LoadRead
    \/ LoadAssign
    \/ AutoTest("as1")
    \/ AutoSaveEnter("as1")
    \/ SaveToDict("as1")
    \/ SaveOpen("as1")
    \/ SaveDump("as1")
    \/ SaveReplace("as1")
    \/ AutoSleep("as1")

SpecBoot == Init /\ [][NextBoot]_vars

----------------------------------------------------------------------------
(* The autosave beside the mining loop: Blockchain.to_dict reads           *)
(* self.chain and then self.pending_transactions, and                      *)
(* mine_pending_transactions appends the block and then empties the pool,  *)
(* with no lock between the two threads.                                   *)

\* to_dict, line 146: [block.to_dict() for block in self.chain]
ToDictChain(t) ==
    /\ ThreadStep(t, "s_dict", "s_pending")
    /\ loc' = [loc EXCEPT ![t] =
                  [ chain |-> [k \in 1..Len(chain) |-> Block_to_dict(chain[k])],
                    of |-> loc[t].of ]]
    /\ UNCHANGED <<bcVars, now, last, tampered, extVars, midmine>>

\* to_dict, lines 147-149: the pending pool, the difficulty and the nodes
ToDictPending(t) ==
    /\ ThreadStep(t, "s_pending", "s_open")
    /\ \E order \in Orders(nodes) :
          loc' = [loc EXCEPT ![t] =
                     [ blockchain_dict |->
                           [to_dict(Self, order) EXCEPT !.chain = loc[t].chain],
                       of |-> loc[t].of ]]
    /\ UNCHANGED <<bcVars, now, last, tampered, extVars, midmine>>

NextSnapshot ==
    \/ SubmitToPool
    \/ StartMiningThread
    \/ LoopTest
    \/ LoopCheckPending
    \/ MineRead("bg")
    \/ MineBuild("bg")
    \/ MineCount("bg")
    \/ MineSearch("bg")
    \/ MineAppend("bg")
    \/ MineClear("bg")
    \/ StartAutoSave
    \/ \E t \in AutoLoops : AutoTest(t)
    \/ \E t \in AutoLoops : AutoSaveEnter(t)
    \/ \E t \in AutoLoops : ToDictChain(t)
    \/ \E t \in AutoLoops : ToDictPending(t)
    \/ \E t \in AutoLoops : SaveOpen(t)
    \/ \E t \in AutoLoops : SaveDump(t)
    \/ \E t \in AutoLoops : SaveReplace(t)
    \/ \E t \in AutoLoops : AutoSleep(t)

SpecSnapshot == Init /\ [][NextSnapshot]_vars

----------------------------------------------------------------------------
(* The ProofOfWork engine of a mining node: its blocks are mined with      *)
(* mine_block, its difficulty is moved by adjust_difficulty and by the     *)
(* power mode that the resource monitor sets                               *)

MaxMined == 11             \* blocks mined by the engine under SpecPow
MaxTuneMined == 3          \* blocks mined by the engine under SpecTune
MaxTargetTime == 20        \* largest target_time the power modes lead to
MaxEngineDifficulty == 4   \* largest difficulty of the engine

AdjustmentFactors == {20, 25, 50}
MaxNonces == {0, 1, 2, Modulus}
ElapsedTimes == {0, 1}
AdjustTimes == {7, 8, 12, 13}
Temperatures == {NoReading, 60, 65, 71}
CpuPercents == {NoReading, 50, 70, 75, 85}

EngineBlocks ==
    {Block(index, 0, [transactions |-> <<>>, count |-> 0], Str0, MinerAddress) :
        index \in 0..1}

\* MiningNode.initialize: ProofOfWork(initial_difficulty=self.difficulty)
InitEngine(factors) ==
    /\ InitBlockchain
    /\ peer_chains = [n \in AllPeers |-> <<>>]
    /\ files = [f \in FileNames |-> Absent]
    /\ saved = [f \in FileNames |-> Blockchain(0)]
    /\ \E adjustment_factor \in factors :
          pow = ProofOfWork(PyInt(difficulty), <<10, 1>>, adjustment_factor)
    /\ power_mode = "normal"
    /\ configured_target_time = <<10, 1>>

\* a caller of ProofOfWork.mine_block with a block, a max_nonce and a duration
\* of the search from the given sets
PowMineFrom(bound, blocks, max_nonces, times) ==
    /\ Idle
    /\ pow.blocks_mined < bound
    /\ \E block \in blocks, max_nonce \in max_nonces, time_taken \in times :
          LET r == ProofOfWork_mine_block(pow, block, max_nonce, time_taken)
          IN  /\ pow' = r.self
              /\ last' = [op |-> "pow_mine_block",
                          arg |-> [block |-> block, max_nonce |-> max_nonce],
                          ret |-> r.ret, exc |-> r.exc, pre |-> pow, block |-> r.block]
    /\ UNCHANGED <<bcVars, now, tampered, thVars, peer_chains, files, saved, power_mode,
                 ctlVars, configured_target_time, autoVars>>

PowMineUpTo(bound) == PowMineFrom(bound, EngineBlocks, MaxNonces, ElapsedTimes)

PowAdjustDifficulty ==
    /\ Idle
    /\ \E time_taken \in AdjustTimes :
          LET r == ProofOfWork_adjust_difficulty(pow, time_taken)
          IN  /\ r.difficulty.value <= 100 * MaxEngineDifficulty
              /\ pow' = r
              /\ last' = [op |-> "pow_adjust_difficulty", arg |-> time_taken,
                          ret |-> r.difficulty, exc |-> "none", pre |-> pow]
    /\ UNCHANGED <<bcVars, now, tampered, thVars, peer_chains, files, saved, power_mode,
                 ctlVars, configured_target_time, autoVars>>

\* the monitoring loop calls _adjust_mining_for_resources with its readings
MonitorReads(temperatures, cpu_percents) ==
    /\ Idle
    /\ \E temperature \in temperatures, cpu_percent \in cpu_percents :
          LET r == adjust_mining_for_resources(pow, power_mode, temperature, cpu_percent)
          IN  /\ r.pow.target_time[1] <= MaxTargetTime * r.pow.target_time[2]
              /\ r.pow.difficulty.value <= 100 * MaxEngineDifficulty
              /\ pow' = r.pow
              /\ power_mode' = r.power_mode
              /\ last' = [op |-> "adjust_mining_for_resources",
                          arg |-> <<temperature, cpu_percent>>, ret |-> 0,
                          exc |-> "none", pre |-> [pow |-> pow, power_mode |-> power_mode]]
    /\ UNCHANGED <<bcVars, now, tampered, thVars, peer_chains, files, saved, ctlVars, configured_target_time, autoVars>>

\* a device that runs warm: the readings lead to the modes low and normal
InitPow == InitEngine({20})
PowMineBlock == PowMineUpTo(MaxMined)
MonitorWarm == MonitorReads({NoReading, 65, 71}, {NoReading, 50})

NextPow ==
    \/ Return
    \/ PowMineBlock
    \/ MonitorWarm

SpecPow == InitPow /\ [][NextPow]_vars

\* the engine with its difficulty adjustment and every reading of the monitor
InitTune == InitEngine(AdjustmentFactors)
PowMineFew == PowMineUpTo(MaxTuneMined)
AdjustMiningForResources == MonitorReads(Temperatures, CpuPercents)

NextTune ==
    \/ Return
    \/ PowMineFew
    \/ PowAdjustDifficulty
    \/ AdjustMiningForResources

SpecTune == InitTune /\ [][NextTune]_vars

\* the power modes of an engine constructed with target_time 10, the default of
\* ProofOfWork, or with another target_time
ConfiguredTargetTimes == {<<10, 1>>, <<6, 1>>}

InitModes ==
    /\ InitBlockchain
    /\ peer_chains = [n \in AllPeers |-> <<>>]
    /\ files = [f \in FileNames |-> Absent]
    /\ saved = [f \in FileNames |-> Blockchain(0)]
    /\ \E target_time \in ConfiguredTargetTimes :
          /\ pow = ProofOfWork(PyInt(difficulty), target_time, 20)
          /\ configured_target_time = target_time
    /\ power_mode = "normal"

NextModes ==
    \/ Return
    \/ AdjustMiningForResources

SpecModes == InitModes /\ [][NextModes]_vars

----------------------------------------------------------------------------
(* A MiningNode at work: the mining loop of its engine mines the pool that *)
(* callers fill, while the engine mines blocks of its own, adjusts its     *)
(* difficulty and follows the power modes. Block has no attribute          *)
(* mining_time, so the loop's hasattr test at line 225 fails and the loop  *)
(* goes on to its sleep.                                                   *)

InitKnobs == InitEngine({50})
MonitorHot == MonitorReads({NoReading, 71}, {NoReading})
PowMineWhole == PowMineFrom(MaxTuneMined, {b \in EngineBlocks : b.index = 0}, {Modulus}, {1})

NextKnobs ==
    \/ Return
    \/ StartMiningThread
    \/ LoopTest
    \/ LoopCheckPending
    \/ MineRead("bg")
    \/ MineBuild("bg")
    \/ MineCount("bg")
    \/ MineSearch("bg")
    \/ MineAppend("bg")
    \/ MineClear("bg")
    \/ SubmitToPool
    \/ PowMineWhole
    \/ PowAdjustDifficulty
    \/ MonitorHot

SpecKnobs == InitKnobs /\ [][NextKnobs]_vars

----------------------------------------------------------------------------
(* A Block in the hands of a caller: constructed, or read from a mapping   *)
(* with Block.from_dict, which takes nonce and hash as they are given, and *)
(* then mined with Block.mine_block                                        *)

MaxGivenNonce == 2     \* largest nonce in a mapping given to Block.from_dict

FreshBlocks ==
    {Block(index, timestamp, [transactions |-> <<>>, count |-> 0], Str0, MinerAddress) :
        index \in 0..1, timestamp \in 0..1}

\* the mappings given to Block.from_dict: the nonce and the hash need not be
\* the ones that Block.calculate_hash gives for the other fields
BlockDicts ==
    UNION {{[Block_to_dict(b) EXCEPT !.nonce = nonce, !.hash = hash] :
               nonce \in 0..MaxGivenNonce,
               hash \in {calculate_hash([b EXCEPT !.nonce = m]) : m \in 0..MaxGivenNonce}
                            \cup {Str0}} :
           b \in FreshBlocks}

Held == loc["fg"]

ConstructBlock ==
    /\ Idle
    /\ \E b \in FreshBlocks : loc' = [loc EXCEPT !["fg"] = [block |-> b]]
    /\ UNCHANGED <<bcVars, now, last, tampered, extVars, pc, midmine>>

BlockFromDict ==
    /\ Idle
    /\ \E d \in BlockDicts : loc' = [loc EXCEPT !["fg"] = [block |-> Block_from_dict(d)]]
    /\ UNCHANGED <<bcVars, now, last, tampered, extVars, pc, midmine>>

BlockMineBlock ==
    /\ Idle
    /\ Held # <<>>
    /\ \E d \in 0..MaxDifficulty :
          LET mined == mine_block(Held.block, d)
          IN  /\ loc' = [loc EXCEPT !["fg"] = [block |-> mined]]
              /\ last' = [op |-> "Block.mine_block", arg |-> d, ret |-> mined.hash,
                          exc |-> "none", pre |-> Held.block]
    /\ UNCHANGED <<bcVars, now, tampered, extVars, pc, midmine>>

NextBlock ==
    \/ Return
    \/ ConstructBlock
    \/ BlockFromDict
    \/ BlockMineBlock

SpecBlock == Init /\ [][NextBlock]_vars

----------------------------------------------------------------------------
(* A Transaction in the hands of a caller: constructed from its three      *)
(* fields, or read from a mapping of four fields with Transaction.from_dict *)

GivenTimestamps == {NoTimestamp, 0, 1}
GivenDevices == {MinerAddress, PeerDevice}

\* the mappings given to Transaction.from_dict: the transaction_id is the one
\* that the other fields give, or another
TransactionDicts ==
    {[transaction_id |-> id, content |-> content, timestamp |-> timestamp,
      device_id |-> device_id] :
        id \in {calculate_transaction_id(c, 0, MinerAddress) : c \in Contents},
        content \in Contents, timestamp \in GivenTimestamps, device_id \in GivenDevices}

ConstructTransaction ==
    /\ Idle
    /\ \E content \in Contents, timestamp \in GivenTimestamps, device_id \in GivenDevices :
          last' = [op |-> "Transaction",
                   arg |-> [content |-> content, timestamp |-> timestamp,
                            device_id |-> device_id],
                   ret |-> Transaction(content, timestamp, device_id),
                   exc |-> "none", pre |-> Self]
    /\ UNCHANGED <<bcVars, now, tampered, extVars, thVars>>

\* Transaction.from_dict(m).to_dict()
TransactionFromDict ==
    /\ Idle
    /\ \E m \in TransactionDicts :
          last' = [op |-> "Transaction.from_dict", arg |-> m,
                   ret |-> Transaction_to_dict(Transaction_from_dict(m)),
                   exc |-> "none", pre |-> Self]
    /\ UNCHANGED <<bcVars, now, tampered, extVars, thVars>>

NextTransaction ==
    \/ Return
    \/ Tick
    \/ ConstructTransaction
    \/ TransactionFromDict

SpecTransaction == Init /\ [][NextTransaction]_vars

----------------------------------------------------------------------------
(* The history of a barcode: transactions are submitted and mined, and the *)
(* chain is asked for the transactions of a barcode                        *)

\* the barcodes asked for: the ones that the contents carry, and None
Barcodes == {Barcode(c) : c \in Contents} \cup {None}

GetTransactionHistory ==
    /\ \E barcode \in Barcodes :
          Call("get_transaction_history", barcode, get_transaction_history(Self, barcode))
    /\ UNCHANGED <<now, tampered, extVars, thVars>>

NextHistory ==
    \/ Return
    \/ AppendGenesis
    \/ AddTransaction
    \/ MinePendingTransactions
    \/ GetTransactionHistory

SpecHistory == Init /\ [][NextHistory]_vars

----------------------------------------------------------------------------
(* Checkpoints: create_checkpoint under the name of the time or under a    *)
(* given name, and cleanup_old_checkpoints.                                *)

MaxKeep == 2           \* largest max_checkpoints given

\* the checkpoint_name of a call: None, or a name
GivenCheckpointNames == {None, [name |-> NamedCheckpoint]}

CreateCheckpoint ==
    /\ Idle
    /\ \E checkpoint_name \in GivenCheckpointNames, order \in Orders(nodes),
          tmp \in {t \in TempNames : files[t] = Absent}, fail \in {"none", "open"} :
          LET r == create_checkpoint(files, Self, checkpoint_name, now, order, tmp, fail)
          IN  /\ files' = r.files
              /\ saved' = IF r.saved THEN [saved EXCEPT ![r.ret] = Self] ELSE saved
              /\ last' = [op |-> "create_checkpoint", arg |-> checkpoint_name,
                          ret |-> r.ret, exc |-> "none", pre |-> Self]
    /\ UNCHANGED <<bcVars, now, tampered, thVars, peer_chains, pow, power_mode,
                 ctlVars, configured_target_time, autoVars>>

\* pre is the directory before the call
CleanupOldCheckpoints ==
    /\ Idle
    /\ \E max_checkpoints \in 0..MaxKeep :
          LET r == cleanup_old_checkpoints(files, max_checkpoints)
          IN  /\ files' = r.files
              /\ last' = [op |-> "cleanup_old_checkpoints", arg |-> max_checkpoints,
                          ret |-> r.ret, exc |-> "none", pre |-> files]
    /\ UNCHANGED <<bcVars, now, tampered, thVars, peer_chains, saved, pow, power_mode,
                 ctlVars, configured_target_time, autoVars>>

NextCheckpoints ==
    \/ Return
    \/ Tick
    \/ AppendGenesis
    \/ CreateCheckpoint
    \/ CleanupOldCheckpoints

SpecCheckpoints == Init /\ [][NextCheckpoints]_vars

----------------------------------------------------------------------------
(* Properties of the sequential interface *)

IsPrefix(s, t) == Len(s) <= Len(t) /\ SubSeq(t, 1, Len(s)) = s

\* the digits of h that a difficulty of d looks at are all zero
LeadingZeros(h, d) == \A i \in 1..d : i <= Len(h.lead) /\ h.lead[i] = 0

\* C1: add_block(block) appends the block and returns true exactly when (a) the
\* chain is empty or block.previous_hash is the tip's hash, (b) block.hash is the
\* hash recomputed from the block's fields and (c) block.hash starts with
\* `difficulty` zeros; when one of the three fails it returns false and appends
\* nothing.
C1_AddBlockIffThreeChecks ==
    (last.op = "add_block" /\ last.arg.type \in {"Block", "dict"}) =>
        LET pre == last.pre
            b == last.arg.v
            linked == pre.chain = <<>> \/ b.previous_hash = pre.chain[Len(pre.chain)].hash
            hashed == b.hash = calculate_hash(b)
            zeros == LeadingZeros(b.hash, pre.difficulty)
        IN  /\ last.exc = "none"
            /\ last.ret = (linked /\ hashed /\ zeros)
            /\ last.ret => chain = Append(pre.chain, b)
            /\ ~ last.ret => chain = pre.chain

\* an add_block call accepted a block onto a non-empty chain
C1_Witness ==
    /\ last.op = "add_block"
    /\ last.ret = TRUE
    /\ Len(last.pre.chain) >= 1
    /\ last.pre.difficulty >= 1

\* C2: when add_block returns false, or raises the type error, the chain, the
\* pending pool, the difficulty and the peer set are as they were before the call.
C2_AddBlockFailureChangesNothing ==
    (last.op = "add_block" /\ (last.exc = "TypeError" \/ last.ret = FALSE)) =>
        /\ chain = last.pre.chain
        /\ pending_transactions = last.pre.pending_transactions
        /\ difficulty = last.pre.difficulty
        /\ nodes = last.pre.nodes

\* add_block returned false on a Blockchain with blocks, pending transactions
\* and peers
C2_Witness ==
    /\ last.op = "add_block"
    /\ last.exc = "none"
    /\ last.ret = FALSE
    /\ chain # <<>>
    /\ pending_transactions # <<>>
    /\ nodes # {}

\* C3: the block at position i of the chain has index i.
C3_IndexIsPosition ==
    \A i \in 1..Len(chain) : chain[i].index = i - 1

\* the chain holds no block that came in through add_block
MinedOnly ==
    \A i \in 1..Len(chain) : chain[i].device_id \in {MinerAddress, GenesisDevice}

\* C4: a chain of N >= 1 blocks built by mine_pending_transactions alone, after
\* a genesis block or not, passes is_chain_valid.
C4_MinedChainIsValid ==
    (Len(chain) >= 1 /\ MinedOnly) => is_chain_valid(Self)

\* two blocks were mined after the genesis block
C4_Witness ==
    /\ Len(chain) >= 3
    /\ MinedOnly
    /\ chain[1].device_id = GenesisDevice

\* C5: after any single field of any one block of a valid chain, the block at
\* position 0 included, is changed without rehashing, is_chain_valid is false.
C5_TamperingIsDetected ==
    tampered => ~ is_chain_valid(Self)

\* C6: is_chain_valid is true in every state reached by add_transaction,
\* mine_pending_transactions, add_block and adjust_difficulty calls.
C6_ChainAlwaysValid ==
    is_chain_valid(Self)

\* C7: mine_pending_transactions appends exactly one block; its payload holds the
\* transactions pending at the call, in order, and their number; its index is the
\* former length, its previous_hash the former tip's hash or "0", its hash meets
\* the difficulty; the pending pool is empty afterwards.
C7_MineSweepsPoolIntoOneBlock ==
    last.op = "mine_pending_transactions" =>
        LET pre == last.pre
            b == last.ret
        IN  /\ chain = Append(pre.chain, b)
            /\ Len(b.data.transactions) = Len(pre.pending_transactions)
            /\ \A i \in 1..Len(pre.pending_transactions) :
                  b.data.transactions[i] = Transaction_to_dict(pre.pending_transactions[i])
            /\ b.data.count = Len(pre.pending_transactions)
            /\ b.index = Len(pre.chain)
            /\ b.previous_hash =
                  (IF pre.chain = <<>> THEN Str0 ELSE pre.chain[Len(pre.chain)].hash)
            /\ LeadingZeros(b.hash, pre.difficulty)
            /\ pending_transactions = <<>>

\* a call mined two different pending transactions onto a non-empty chain
C7_Witness ==
    /\ last.op = "mine_pending_transactions"
    /\ Len(last.pre.pending_transactions) = 2
    /\ last.pre.pending_transactions[1] # last.pre.pending_transactions[2]
    /\ last.pre.chain # <<>>

\* C10: across a step of add_transaction, mine_pending_transactions, add_block or
\* adjust_difficulty the former chain is a prefix of the new one, which is longer
\* by one block at most.
C10_AppendOnly ==
    [][IsPrefix(chain, chain') /\ Len(chain') <= Len(chain) + 1]_vars

\* a block was appended to a chain that already had two
C10_Witness ==
    /\ last.op \in {"add_block", "mine_pending_transactions"}
    /\ Len(last.pre.chain) >= 2
    /\ Len(chain) = Len(last.pre.chain) + 1

----------------------------------------------------------------------------
(* Properties of the difficulty adjustment of the Blockchain *)

\* the sum of the 9 gaps between the timestamps of the last 10 blocks of c
SpanOfLastTen(c) == c[Len(c)].timestamp - c[Len(c) - 9].timestamp

\* C17: adjust_difficulty(target_time) leaves the difficulty d unchanged when the
\* chain has fewer than 10 blocks; otherwise, with avg the mean of the 9 gaps
\* between the timestamps of the last 10 blocks, the difficulty becomes d + 1 if
\* avg < 0.8 * target_time, max(1, d - 1) if avg > 1.2 * target_time, and stays d
\* otherwise (avg = span / 9 and target_time = num / den, so avg < 0.8 * target_time
\* is 10 * span * den < 72 * num, and avg > 1.2 * target_time is
\* 10 * span * den > 108 * num); chain and pending pool are never changed
C17_AdjustDifficultyRule ==
    last.op = "adjust_difficulty" =>
        LET d == last.pre.difficulty
            num == last.arg[1]
            den == last.arg[2]
        IN  /\ chain = last.pre.chain
            /\ pending_transactions = last.pre.pending_transactions
            /\ last.exc = "none"
            /\ last.ret = difficulty
            /\ IF Len(chain) < 10 THEN difficulty = d
               ELSE IF 10 * SpanOfLastTen(chain) * den < 72 * num THEN difficulty = d + 1
               ELSE IF 10 * SpanOfLastTen(chain) * den > 108 * num
               THEN difficulty = (IF d - 1 >= 1 THEN d - 1 ELSE 1)
               ELSE difficulty = d

\* blocks that came slower than 1.2 * target_time apart: the decrease stops at 1
C17_Witness ==
    /\ last.op = "adjust_difficulty"
    /\ Len(chain) >= 10
    /\ 10 * SpanOfLastTen(chain) * last.arg[2] > 108 * last.arg[1]
    /\ last.pre.difficulty = 1
    /\ difficulty = 1

----------------------------------------------------------------------------
(* Properties of the reconciliation with the peers *)

\* is_chain_valid of a Blockchain of difficulty d that holds the served chain
ValidAt(dicts, d) ==
    is_chain_valid([Blockchain(d) EXCEPT !.chain = BlocksFromDicts(dicts)])

\* the chains of the registered peers that are longer than the local chain was
\* and valid at the local difficulty
Candidates ==
    {c \in {peer_chains[n] : n \in last.pre.nodes} :
        Len(c) > Len(last.pre.chain) /\ ValidAt(c, last.pre.difficulty)}

\* C11: resolve_conflicts adopts the longest valid chain among the registered
\* peers: when some peer serves a chain that is longer than the local one and
\* valid, the local chain becomes a valid peer chain of the greatest length among
\* those and the call returns true, whatever the order of the visits; when no
\* peer chain is both longer and valid, the chain is unchanged and the call
\* returns false
C11_AdoptsLongestValid ==
    last.op = "resolve_conflicts" =>
        IF Candidates # {}
        THEN /\ last.ret = TRUE
             /\ \E c \in Candidates :
                   /\ chain = BlocksFromDicts(c)
                   /\ \A c2 \in Candidates : Len(c2) <= Len(c)
        ELSE /\ last.ret = FALSE
             /\ chain = last.pre.chain

\* C12: a peer chain is judged by the local chain's own rule: the local chain
\* passes is_chain_valid at the local difficulty right after resolve_conflicts
\* returns true, and resolve_conflicts does not return false when a registered
\* peer serves a longer chain that is valid at the local difficulty
C12_JudgedAtLocalDifficulty ==
    last.op = "resolve_conflicts" =>
        /\ last.ret = TRUE => is_chain_valid(Self)
        /\ (\E n \in last.pre.nodes :
               /\ Len(peer_chains[n]) > Len(last.pre.chain)
               /\ ValidAt(peer_chains[n], difficulty)) => last.ret = TRUE

\* C33: resolve_conflicts changes nothing but the chain: the pending pool, the
\* difficulty and the peer set are as before the call; the local chain does not
\* become shorter; a peer chain as long as the local chain does not replace it;
\* and get_chain_function is called exactly once for each registered peer
C33_ResolveChangesChainOnly ==
    last.op = "resolve_conflicts" =>
        /\ pending_transactions = last.pre.pending_transactions
        /\ difficulty = last.pre.difficulty
        /\ nodes = last.pre.nodes
        /\ Len(chain) >= Len(last.pre.chain)
        /\ (last.ret = TRUE \/ chain # last.pre.chain) => Len(chain) > Len(last.pre.chain)
        /\ Len(last.fetched) = Cardinality(last.pre.nodes)
        /\ \A n \in last.pre.nodes :
               Cardinality({i \in 1..Len(last.fetched) : last.fetched[i] = n}) = 1

\* two peers are registered; one of them serves a chain that is as long as the
\* local one, passes the validation and is not the local chain
C33_Witness ==
    /\ last.op = "resolve_conflicts"
    /\ Cardinality(last.pre.nodes) = 2
    /\ last.pre.chain # <<>>
    /\ last.pre.pending_transactions # <<>>
    /\ \E n \in last.pre.nodes :
          /\ Len(peer_chains[n]) = Len(last.pre.chain)
          /\ is_chain_valid(TempBlockchain(peer_chains[n]))
          /\ BlocksFromDicts(peer_chains[n]) # last.pre.chain

----------------------------------------------------------------------------
(* Properties of persistence *)

\* C13: persistence round trip: save_blockchain followed, with nothing written to
\* the file in between, by load_blockchain (into a new Blockchain as into any
\* other) yields the blocks that were saved with all their fields, nonce and hash
\* as they were, the same pending pool in the same order with the same
\* transaction_ids, the same difficulty and the same peer set
C13_SaveLoadRoundTrip ==
    (last.op = "load_blockchain" /\ saved[last.arg] # NoSave) =>
        /\ last.ret = TRUE
        /\ chain = saved[last.arg].chain
        /\ pending_transactions = saved[last.arg].pending_transactions
        /\ difficulty = saved[last.arg].difficulty
        /\ nodes = saved[last.arg].nodes

\* a new Blockchain of another difficulty loads a chain of two blocks, a pending
\* transaction whose id is not the one its fields give, and a peer
C13_Witness ==
    /\ last.op = "load_blockchain"
    /\ saved[last.arg] # NoSave
    /\ last.pre = Blockchain(last.pre.difficulty)
    /\ last.pre.difficulty # difficulty
    /\ Len(chain) = 2
    /\ nodes # {}
    /\ \E k \in 1..Len(pending_transactions) :
          LET tx == pending_transactions[k]
          IN  tx.transaction_id #
                  calculate_transaction_id(tx.content, tx.timestamp, tx.device_id)

\* the file holds a document that Blockchain.from_dict can turn into a Blockchain
Loadable(c) ==
    /\ c.kind = "json"
    /\ "chain" \in DOMAIN c.doc
    /\ \A k \in 1..Len(c.doc.chain) : BlockKeys \subseteq DOMAIN c.doc.chain[k]
    /\ "pending_transactions" \in DOMAIN c.doc =>
          \A k \in 1..Len(c.doc.pending_transactions) :
              TransactionKeys \subseteq DOMAIN c.doc.pending_transactions[k]

\* C16: load_blockchain on a path that does not exist, or on a file that cannot
\* be parsed or deserialized, returns false, raises nothing and leaves chain,
\* pending pool, difficulty and peer set as they were; otherwise it returns true
\* and all four fields of the Blockchain are those of the document
C16_LoadFailsCleanly ==
    last.op = "load_blockchain" =>
        /\ last.exc = "none"
        /\ IF Loadable(files[last.arg])
           THEN LET doc == files[last.arg].doc
                    listed == Get(doc, "nodes", <<>>)
                IN  /\ last.ret = TRUE
                    /\ [k \in 1..Len(chain) |-> Block_to_dict(chain[k])] = doc.chain
                    /\ [k \in 1..Len(pending_transactions) |->
                           Transaction_to_dict(pending_transactions[k])]
                          = Get(doc, "pending_transactions", <<>>)
                    /\ difficulty = Get(doc, "difficulty", DefaultDifficulty)
                    /\ nodes = {listed[k] : k \in 1..Len(listed)}
           ELSE /\ last.ret = FALSE
                /\ Self = last.pre

\* a Blockchain that holds blocks is asked to load a document it cannot deserialize
C16_Witness ==
    /\ last.op = "load_blockchain"
    /\ files[last.arg].kind = "json"
    /\ ~ Loadable(files[last.arg])
    /\ last.pre.chain # <<>>
    /\ last.pre.nodes # {}

\* C14: at every moment, also while the autosave and a caller's save_blockchain
\* of the same file run together or after a save has failed midway, the file
\* blockchain.json is absent or holds one whole chain document: a reader never
\* finds it partly written
C14_TargetNeverPartial ==
    \/ files[Target] = Absent
    \/ /\ files[Target].kind = "json"
       /\ DOMAIN files[Target].doc =
              {"chain", "pending_transactions", "difficulty", "nodes"}
       /\ \A k \in 1..Len(files[Target].doc.chain) :
              DOMAIN files[Target].doc.chain[k] = BlockKeys

\* the file holds a document, one save is writing its temporary file, the
\* other is about to replace the file, and a save that failed midway has left
\* its temporary file behind
C14_Witness ==
    /\ files[Target].kind = "json"
    /\ pc["autosave"] = "s_dump"
    /\ pc["saver"] = "s_replace"
    /\ files[loc["autosave"].temp_name] = Unparsable
    /\ files[loc["saver"].temp_name] # files[Target]
    /\ \E n \in TempNames \ {loc["autosave"].temp_name, loc["saver"].temp_name} :
          files[n] = Unparsable

\* C15: writes to the same destination are serialized: never are two executions
\* of save_blockchain, the autosave loop's and a caller's, in progress for
\* blockchain.json at once
C15_SavesSerialized ==
    ~ (pc["autosave"] \in Saving /\ pc["saver"] \in Saving)

\* C36: autosave can be stopped cleanly: no save is started after stop_auto_save
\* has returned true, start_auto_save returns false while an autosave loop runs,
\* and after any sequence of start_auto_save and stop_auto_save calls at most
\* one autosave loop is active
C36_AutosaveStopsCleanly ==
    [][ /\ Cardinality(AutoRunning') <= 1
        /\ (last.op = "stop_auto_save" /\ last.ret = TRUE /\ last' = last) =>
               \A t \in AutoLoops : ~ (pc[t] = "a_save" /\ pc'[t] = "s_dict")
        /\ AutoRunning # {} =>
               \A t \in AutoLoops : ~ (pc[t] = "idle" /\ pc'[t] = "a_test") ]_vars

\* C37: starting the state layer does not destroy a persisted chain: when a
\* chain file exists and BlockchainState is constructed with auto_save around a
\* new Blockchain, then once load_blockchain has returned, the chain that was
\* persisted is in memory and in the file, however the first save of the
\* autosave thread falls among the steps of the load
C37_BootKeepsPersistedChain ==
    (last.op = "BlockchainState" /\ pc["fg"] = "l_done") =>
        LET disk == load_blockchain(files, Blockchain(DefaultDifficulty), Target)
        IN  /\ loc["fg"].ret = TRUE
            /\ chain = last.pre.chain
            /\ pending_transactions = last.pre.pending_transactions
            /\ difficulty = last.pre.difficulty
            /\ nodes = last.pre.nodes
            /\ disk.ret = TRUE
            /\ disk.self.chain = last.pre.chain
            /\ disk.self.pending_transactions = last.pre.pending_transactions
            /\ disk.self.difficulty = last.pre.difficulty
            /\ disk.self.nodes = last.pre.nodes

\* the transaction dictionary is in a block of the document's chain
DocInChain(doc, tx_dict) ==
    \E i \in 1..Len(doc.chain) :
        /\ "transactions" \in DOMAIN doc.chain[i].data
        /\ \E k \in 1..Len(doc.chain[i].data.transactions) :
              doc.chain[i].data.transactions[k] = tx_dict

DocInPool(doc, tx_dict) ==
    \E k \in 1..Len(doc.pending_transactions) : doc.pending_transactions[k] = tx_dict

\* the dictionaries of the transactions that a Blockchain holds, in its chain
\* or in its pool
Accepted(self) ==
    {ChainTxs(self.chain)[k] : k \in 1..Len(ChainTxs(self.chain))}
        \cup {Transaction_to_dict(self.pending_transactions[k]) :
                  k \in 1..Len(self.pending_transactions)}

\* C38: a document written by save_blockchain is a consistent snapshot: every
\* transaction accepted before the save began is in the chain or in the pending
\* pool of the document, and no transaction is in both, also when a mining
\* thread appends a block and empties the pool while the save serializes
C38_SavedDocumentIsSnapshot ==
    (files[Target].kind = "json" /\ saved[Target] # NoSave) =>
        LET doc == files[Target].doc
        IN  /\ \A tx_dict \in Accepted(saved[Target]) :
                   DocInChain(doc, tx_dict) \/ DocInPool(doc, tx_dict)
            /\ \A k \in 1..Len(doc.pending_transactions) :
                   ~ DocInChain(doc, doc.pending_transactions[k])

----------------------------------------------------------------------------
(* Properties of the ProofOfWork engine *)

\* the nonces below max_nonce whose hash meets the engine's difficulty
Winners ==
    {k \in 0..(last.arg.max_nonce - 1) :
        StartsWithZeros(calculate_hash([last.arg.block EXCEPT !.nonce = k]),
                        last.pre.difficulty.value \div 100)}

\* C18: mine_block(block, max_nonce) tries the nonces 0 .. max_nonce - 1 in order
\* and does not raise when they are exhausted: if none gives a hash that meets the
\* difficulty, the result is a failure whose hash is none and whose nonce is the
\* last nonce tried, max_nonce - 1; otherwise it is a success with the smallest
\* such nonce and its hash
C18_BoundedSearchResult ==
    last.op = "pow_mine_block" =>
        /\ last.exc = "none"
        /\ IF Winners = {}
           THEN /\ last.ret.success = FALSE
                /\ last.ret.hash = None
                /\ last.arg.max_nonce > 0 => last.ret.nonce = last.arg.max_nonce - 1
           ELSE /\ last.ret.success = TRUE
                /\ last.ret.nonce \in Winners
                /\ \A k \in Winners : last.ret.nonce <= k
                /\ last.ret.hash =
                       calculate_hash([last.arg.block EXCEPT !.nonce = last.ret.nonce])

\* the last 10 entries of a window
LastTen(w) == IF Len(w) <= 10 THEN w ELSE SubSeq(w, Len(w) - 9, Len(w))

\* C19: mine_block updates the statistics only on success: a successful call adds
\* one to blocks_mined and appends the difficulty used to the rolling window,
\* which never holds more than 10 entries (the oldest goes first); a failed call
\* leaves blocks_mined, the cumulative time and the window as they were
C19_StatsOnlyOnSuccess ==
    /\ Len(pow.last_difficulties) <= 10
    /\ last.op = "pow_mine_block" =>
          IF last.ret.success
          THEN /\ pow.blocks_mined = last.pre.blocks_mined + 1
               /\ pow.last_difficulties =
                      LastTen(Append(last.pre.last_difficulties, last.pre.difficulty))
          ELSE /\ pow.blocks_mined = last.pre.blocks_mined
               /\ pow.total_time = last.pre.total_time
               /\ pow.last_difficulties = last.pre.last_difficulties

\* a block is mined when the window is full and its oldest entry is not the
\* difficulty of today
C19_Witness ==
    /\ last.op = "pow_mine_block"
    /\ last.ret.success
    /\ Len(last.pre.last_difficulties) = 10
    /\ last.pre.last_difficulties[1] # last.pre.difficulty

\* max(1, d +/- adjustment_factor) or max(1, d), in hundredths, for the call that
\* has just returned
AdjustTarget ==
    LET d == last.pre.difficulty.value
        num == last.pre.target_time[1]
        den == last.pre.target_time[2]
        moved == IF 10 * last.arg * den < 8 * num THEN d + last.pre.adjustment_factor
                 ELSE IF 10 * last.arg * den > 12 * num
                 THEN d - last.pre.adjustment_factor
                 ELSE d
    IN  IF moved < 100 THEN 100 ELSE moved

DefaultAdjustmentFactor == 20

\* C39: with the default adjustment_factor 0.2 and at least 3 blocks mined,
\* adjust_difficulty calls that each report ratio < 0.8 raise the difficulty above
\* its starting value after finitely many calls, and calls that each report
\* ratio > 1.2 lower a difficulty above 1. adjust_difficulty changes nothing but
\* the difficulty and its result depends on nothing else that it changes, so a
\* call that returns the difficulty it started from returns it again at every
\* repetition: the difficulty moves after finitely many calls exactly when it
\* moves at the first one
C39_SustainedRatioMovesDifficulty ==
    (/\ last.op = "pow_adjust_difficulty"
     /\ last.pre.blocks_mined >= 3
     /\ last.pre.adjustment_factor = DefaultAdjustmentFactor) =>
        LET num == last.pre.target_time[1]
            den == last.pre.target_time[2]
        IN  /\ 10 * last.arg * den < 8 * num =>
                   pow.difficulty.value > last.pre.difficulty.value
            /\ (10 * last.arg * den > 12 * num /\ last.pre.difficulty.value > 100) =>
                   pow.difficulty.value < last.pre.difficulty.value

----------------------------------------------------------------------------
(* Properties of the threads *)

\* transaction tx is in the payload of a block of the chain
InChain(tx) ==
    \E i \in 1..Len(chain) :
        /\ "transactions" \in DOMAIN chain[i].data
        /\ \E k \in 1..Len(chain[i].data.transactions) :
              chain[i].data.transactions[k] = Transaction_to_dict(tx)

InPool(tx) ==
    \E k \in 1..Len(pending_transactions) : pending_transactions[k] = tx

\* C8: a transaction accepted by add_transaction while another thread is inside
\* mine_pending_transactions is, at every later state, in the pending pool or in
\* a block of the chain.
C8_NoTransactionLost ==
    \A tx \in midmine : InPool(tx) \/ InChain(tx)

\* C9: no two blocks of the chain share an index, a previous_hash or a
\* transaction.
C9_NoBatchMinedTwice ==
    \A i, j \in 1..Len(chain) :
        i < j =>
            /\ chain[i].index # chain[j].index
            /\ chain[i].previous_hash # chain[j].previous_hash
            /\ \A k \in 1..Len(chain[i].data.transactions),
                  l \in 1..Len(chain[j].data.transactions) :
                  chain[i].data.transactions[k] # chain[j].data.transactions[l]

----------------------------------------------------------------------------
(* Properties of the engine at the difficulties it reaches *)

\* C21: mine_block returns a result and does not raise at every difficulty that
\* adjust_difficulty and the power modes lead to, and a block it reports as
\* mined has floor(difficulty) leading zeros
C21_MineBlockAtEveryDifficulty ==
    (last.op = "pow_mine_block") =>
        /\ last.exc = "none"
        /\ last.ret.success =>
               LeadingZeros(last.ret.hash, last.pre.difficulty.value \div 100)

----------------------------------------------------------------------------
(* Properties of Block.mine_block *)

\* C27: when Block.mine_block(d) has returned, the stored hash has at least d
\* leading zeros and is the hash of the block's fields and nonce (is_valid()
\* holds); the nonce is the nonce before the call or larger, and no other field
\* has changed
C27_MinedBlockIsValid ==
    (last.op = "Block.mine_block") =>
        LET b == Held.block
        IN  /\ StartsWithZeros(b.hash, last.arg)
            /\ is_valid(b)
            /\ b.nonce >= last.pre.nonce
            /\ [b EXCEPT !.nonce = 0, !.hash = Str0] =
                   [last.pre EXCEPT !.nonce = 0, !.hash = Str0]

----------------------------------------------------------------------------
(* Properties of Transaction *)

\* C28: the transaction_id of a newly constructed Transaction is the function
\* of its content, timestamp and device_id; Transaction.from_dict keeps the
\* transaction_id of the mapping as given, and from_dict(m).to_dict() = m for
\* every mapping m of the four fields
C28_ComputeOnCreateTrustOnLoad ==
    /\ (last.op = "Transaction") =>
           last.ret.transaction_id =
               calculate_transaction_id(last.ret.content, last.ret.timestamp,
                                        last.ret.device_id)
    /\ (last.op = "Transaction.from_dict") =>
           /\ last.ret.transaction_id = last.arg.transaction_id
           /\ last.ret = last.arg

----------------------------------------------------------------------------
(* Properties of get_transaction_history *)

\* the content of the transaction carries the barcode
Carries(content, barcode) == barcode = Barcode(content)

\* the entries of the transactions of the given blocks whose content carries the
\* barcode, in the order of the blocks and of each block's payload
RECURSIVE CarriedIn(_, _, _)
CarriedIn(block, tx_dicts, barcode) ==
    IF tx_dicts = <<>> THEN <<>>
    ELSE (IF Carries(tx_dicts[1].content, barcode)
          THEN <<[ transaction |-> tx_dicts[1], block_index |-> block.index,
                   block_hash |-> block.hash, timestamp |-> block.timestamp ]>>
          ELSE <<>>)
         \o CarriedIn(block, Tail(tx_dicts), barcode)

RECURSIVE HistoryOf(_, _)
HistoryOf(blocks, barcode) ==
    IF blocks = <<>> THEN <<>>
    ELSE (IF "transactions" \in DOMAIN blocks[1].data
          THEN CarriedIn(blocks[1], blocks[1].data.transactions, barcode)
          ELSE <<>>)
         \o HistoryOf(Tail(blocks), barcode)

\* C29: get_transaction_history(identifier) returns the transactions of the
\* chain's blocks whose content carries the identifier, one entry per match in
\* chain order, each with the index, hash and timestamp of its block, and no
\* other transaction
C29_HistoryOfIdentifier ==
    (last.op = "get_transaction_history") =>
        last.ret = HistoryOf(last.pre.chain, last.arg)

----------------------------------------------------------------------------
(* Properties of add_transaction *)

\* C32: given a Transaction or its serialized mapping, add_transaction appends
\* exactly one entry, that transaction, to the end of the pending pool and leaves
\* the chain and the difficulty unchanged; given a value of any other type it
\* raises TypeError and leaves the pending pool unchanged
C32_AddTransactionAppendsOne ==
    last.op = "add_transaction" =>
        IF last.arg.type \in {"Transaction", "dict"}
        THEN /\ last.exc = "none"
             /\ Len(pending_transactions) = Len(last.pre.pending_transactions) + 1
             /\ SubSeq(pending_transactions, 1, Len(last.pre.pending_transactions))
                    = last.pre.pending_transactions
             /\ Transaction_to_dict(pending_transactions[Len(pending_transactions)])
                    = (IF last.arg.type = "dict" THEN last.arg.v
                       ELSE Transaction_to_dict(last.arg.v))
             /\ chain = last.pre.chain
             /\ difficulty = last.pre.difficulty
        ELSE /\ last.exc = "TypeError"
             /\ pending_transactions = last.pre.pending_transactions

\* a serialized mapping is added behind a transaction that is pending, on a
\* chain that has a block
C32_Witness ==
    /\ last.op = "add_transaction"
    /\ last.arg.type = "dict"
    /\ last.pre.pending_transactions # <<>>
    /\ last.pre.pending_transactions[1] # pending_transactions[Len(pending_transactions)]
    /\ chain # <<>>

----------------------------------------------------------------------------
(* Properties of cleanup_old_checkpoints *)

Cleaned == last.op = "cleanup_old_checkpoints"

\* C30: after cleanup_old_checkpoints(max_keep) has returned, for every
\* max_keep >= 0, at most max_keep checkpoint files remain, the remaining ones
\* are those with the largest embedded timestamps, and the number returned is
\* the number of files deleted
C30_CleanupKeepsNewest ==
    Cleaned =>
        LET before == list_checkpoints(last.pre)
            after == list_checkpoints(files)
        IN  /\ Cardinality(after) <= last.arg
            /\ after \subseteq before
            /\ \A kept \in after, gone \in before \ after :
                   EmbeddedTimestamp(kept) > EmbeddedTimestamp(gone)
            /\ last.ret = Cardinality(before \ after)

\* C31: a checkpoint that fails is told to the caller: when the save beneath it
\* fails, create_checkpoint does not return the name of a snapshot, so that
\* every name create_checkpoint returns can be restored with restore_checkpoint
\* to the state held when the checkpoint was created
C31_ReturnedNameRestores ==
    last.op = "create_checkpoint" =>
        LET r == restore_checkpoint(files, Blockchain(DefaultDifficulty), last.ret)
        IN  /\ r.ret = TRUE
            /\ r.self.chain = last.pre.chain
            /\ r.self.pending_transactions = last.pre.pending_transactions
            /\ r.self.difficulty = last.pre.difficulty
            /\ r.self.nodes = last.pre.nodes

----------------------------------------------------------------------------
(* Properties of the power modes *)

Monitored == last.op = "adjust_mining_for_resources"

\* C23: a sample with neither a temperature nor a CPU reading changes nothing:
\* power_mode, the engine's difficulty and its target_time are as before
C23_NoReadingChangesNothing ==
    (Monitored /\ last.arg = <<NoReading, NoReading>>) =>
        /\ power_mode = last.pre.power_mode
        /\ pow.difficulty = last.pre.pow.difficulty
        /\ pow.target_time = last.pre.pow.target_time

\* the empty sample arrives in a mode other than normal, at a difficulty and a
\* target_time that the modes have moved
C23_Witness ==
    /\ Monitored
    /\ last.arg = <<NoReading, NoReading>>
    /\ power_mode # "normal"
    /\ pow.target_time # <<10, 1>>
    /\ pow.difficulty.type = "float"

\* C24: a sample whose temperature exceeds max_temperature or whose CPU
\* utilisation exceeds max_cpu_percent leaves the mode low, whatever the other
\* reading is; and the mode is high only if no available reading exceeds 0.9
\* times its maximum
C24_ProtectiveClassification ==
    Monitored =>
        LET temperature == last.arg[1]
            cpu_percent == last.arg[2]
        IN  /\ (temperature > MaxTemperature \/ cpu_percent > MaxCpuPercent) =>
                   power_mode = "low"
            /\ power_mode = "high" =>
                   /\ 10 * temperature <= 9 * MaxTemperature
                   /\ 10 * cpu_percent <= 9 * MaxCpuPercent

\* C25: the engine is changed once when the classified mode differs from the
\* previous mode and not at all when it equals it: entering low sets difficulty
\* to max(1, difficulty - 1) and target_time to 1.5 * target_time; entering high
\* sets difficulty to difficulty + 0.5 and target_time to max(5, 0.8 * target_time)
C25_ModeChangesOncePerTransition ==
    Monitored =>
        LET before == last.pre.pow
            t == before.target_time
            u == pow.target_time
        IN  /\ power_mode = last.pre.power_mode => pow = before
            /\ (power_mode = "low" /\ last.pre.power_mode # "low") =>
                   /\ pow.difficulty.value =
                          IF before.difficulty.value - 100 < 100 THEN 100
                          ELSE before.difficulty.value - 100
                   /\ 2 * u[1] * t[2] = 3 * t[1] * u[2]
            /\ (power_mode = "high" /\ last.pre.power_mode # "high") =>
                   /\ pow.difficulty.value = before.difficulty.value + 50
                   /\ IF 4 * t[1] <= 25 * t[2] THEN u[1] = 5 * u[2]
                      ELSE 5 * u[1] * t[2] = 4 * t[1] * u[2]

\* low is entered from high at difficulty 1.5, where the floor of 1 applies
C25_Witness ==
    /\ Monitored
    /\ power_mode = "low"
    /\ last.pre.power_mode = "high"
    /\ last.pre.pow.difficulty.value = 150
    /\ pow.difficulty.value = 100

\* C26: on a transition into normal mode target_time becomes the target_time
\* the engine was constructed with, whichever it was, and the difficulty stays
C26_NormalRestoresConfigured ==
    (Monitored /\ power_mode = "normal" /\ last.pre.power_mode # "normal") =>
        /\ pow.target_time = configured_target_time
        /\ pow.difficulty = last.pre.pow.difficulty

\* C34: the background loop mines only while transactions are pending: every
\* block it appends holds at least one transaction and a count of at least 1,
\* also when a foreground caller adds transactions and calls
\* mine_pending_transactions at the same time
C34_LoopBlocksHoldTransactions ==
    pc["bg"] = "m_clear" =>
        /\ Len(loc["bg"].block.data.transactions) >= 1
        /\ loc["bg"].block.data.count >= 1

\* C35: at most one background mining loop is active for a ProofOfWork engine
\* at any time: start_mining_thread returns false and starts no thread while a
\* loop runs, and after any sequence of start_mining_thread and
\* stop_mining_thread calls, a stop whose join times out while a block is mined
\* included, no two mining loops run at the same time
C35_AtMostOneLoop ==
    /\ Cardinality(Running) <= 1
    /\ (last.op = "start_mining_thread" /\ last.pre # {}) =>
           (last.ret = FALSE /\ Running = last.pre)

----------------------------------------------------------------------------
(* Properties of stopping the mining loop *)

\* C22: after stop_mining_thread has returned True, and until the loop is
\* started again, the chain is the chain of the moment it returned: the loop
\* appends no further block
C22_StoppedLoopAppendsNothing ==
    (last.op = "stop_mining_thread" /\ last.ret = TRUE /\ mining_thread = NoThread) =>
        chain = last.pre.chain

----------------------------------------------------------------------------
(* Properties of the two difficulties *)

\* the block as mine_pending_transactions constructs it, before the nonce search
Unmined(b) == Block(b.index, b.timestamp, b.data, b.previous_hash, b.device_id)

\* C40: the difficulty of the Blockchain and the difficulty of the engine are
\* independent: no operation of the engine (mine_block, adjust_difficulty, the
\* mining loop, a change of power mode) changes Blockchain.difficulty, and a block
\* that the mining loop appends is the block that the nonce search at
\* Blockchain.difficulty gives, whatever the difficulty of the engine is
C40_IndependentDifficulties ==
    [][ /\ difficulty' = difficulty
        /\ (pc["bg"] = "m_append" /\ pc'["bg"] = "m_clear") =>
               /\ Len(chain') = Len(chain) + 1
               /\ chain'[Len(chain')] =
                      mine_block(Unmined(chain'[Len(chain')]), difficulty) ]_vars

\* the loop has appended a block that meets the difficulty of the Blockchain
\* while the engine, in low power mode and after its adjustments, has a higher
\* difficulty, which the block does not meet
C40_Witness ==
    /\ pc["bg"] = "m_clear"
    /\ power_mode = "low"
    /\ pow.difficulty.value > 100 * difficulty
    /\ StartsWithZeros(chain[Len(chain)].hash, difficulty)
    /\ ~ check_difficulty(chain[Len(chain)].hash, pow.difficulty)

====
